---- MODULE Spec2Model ----
(***************************************************************************)
(* Recursive tic-tac-toe with escrowed wagers (cruiser_tutorial).          *)
(* The state is the on-chain state the five instructions read and write:   *)
(* the PlayerProfile accounts, one Game account, the lamport balances of   *)
(* the wallets, of the Game account and of its game signer (the escrow),   *)
(* and the cluster clock.  A failed instruction is reverted by the         *)
(* runtime, so it is a step that changes nothing.  The variable `engine`   *)
(* holds a board and the last call made on it when the functions of the    *)
(* board engine are called on their own, outside an instruction.           *)
(***************************************************************************)
EXTENDS Integers, FiniteSets, Sequences, TLC

VARIABLES now, profiles, game_account, game, lamports, releases, moves_made, engine,
          test_count, validator, processes, tasks

\* The state of the accounts and of the clock.
accounts == <<now, profiles, game_account, game, lamports, releases, moves_made>>

\* The state of the test harness (tests/instructions/mod.rs): the static
\* SETUP with its counter and its validator handle, the validator processes
\* running on the machine, and where each test is in setup() or in the drop
\* of its TestGuard, with its local `count`.
harness == <<test_count, validator, processes, tasks>>

vars == <<accounts, engine, harness>>

(***************************************************************************)
(* Bounds of the model.                                                    *)
(***************************************************************************)
\* u64::MAX, scaled down: every u64 of the program ranges over 0..U64Max.
U64Max == 15
\* The clock runs over 1..MaxTime.
MaxTime == 3
\* The lamports the funding wallet starts with.
InitFunds == 10
\* The rent the runtime asks for a new account.
Rent == 1
\* The non-zero turn length a game is created with.
TurnLength == 1

(***************************************************************************)
(* Keys.                                                                   *)
(***************************************************************************)
\* Pubkey::new_from_array([0; 32]), which is also SystemProgram::KEY.
ZeroKey == "11111111111111111111111111111111"

Profiles == {"profile1", "profile2", "profile3"}

Authorities == {"authority1", "authority2", "authority3"}

\* The keypairs a profile is created from: its authority and its address.
ProfileKeypairs ==
    {<<"authority1", "profile1">>, <<"authority2", "profile2">>,
     <<"authority3", "profile3">>}

Funders == {"funder"}

Recipients == {"receiver1", "receiver2"}

Wallets == Funders \cup Recipients

\* The accounts that hold lamports in the model.
LamportAccounts == Wallets \cup {"game", "game_signer"}

\* An optional account that was not passed.
NoAccount == "none"

(***************************************************************************)
(* accounts/game.rs: Player, Space, Board, CurrentWinner, is_winner.       *)
(***************************************************************************)
Player == {"One", "Two"}

Space == {"PlayerOne", "PlayerTwo", "Empty"}

\* impl From<Player> for Space
SpaceFrom(player) == IF player = "One" THEN "PlayerOne" ELSE "PlayerTwo"

\* The indices of a 3x3 grid, in RC format.
Coord == (0 .. 2) \X (0 .. 2)

Unsolved(grid) == [tag |-> "Unsolved", grid |-> grid]

Solved(player) == [tag |-> "Solved", player |-> player]

\* Default for Space and for Board<S>.
DefaultSubBoard == Unsolved([i \in Coord |-> "Empty"])

DefaultBoard == Unsolved([i \in Coord |-> DefaultSubBoard])

\* Option<T> as a set with at most one element.
None == {}

Some(x) == {x}

\* CurrentWinner::current_winner for Space.
SpaceWinner(space) ==
    CASE space = "PlayerOne" -> Some("One")
      [] space = "PlayerTwo" -> Some("Two")
      [] OTHER -> None

\* CurrentWinner::current_winner for Board<S>.
BoardWinner(board) ==
    IF board.tag = "Solved" THEN Some(board.player) ELSE None

\* The test of a cell without the guard `if player == last_turn`.
WonBy_AnyOccupant(winner, last_turn) == winner # None

\* The cell wins for last_turn: the `matches!(.., Some(player) if player == last_turn)`.
WonBy(winner, last_turn) == winner = Some(last_turn)

\* is_winner without the second diagonal.
is_winner_OneDiagonal(winners, last_turn) ==
    LET won(r, c) == WonBy(winners[<<r, c>>], last_turn)
        rows == \E r \in 0 .. 2 : \A c \in 0 .. 2 : won(r, c)
        cols == \E c \in 0 .. 2 : \A r \in 0 .. 2 : won(r, c)
        diagonal1 == Cardinality({i \in 0 .. 2 : won(i, i)})
    IN  rows \/ cols \/ diagonal1 = 3

\* is_winner over the current_winner() of each cell of the grid.
\* is_winner that relies on a move completing one line only.
is_winner_SingleLine(winners, last_turn) ==
    LET won(r, c) == WonBy(winners[<<r, c>>], last_turn)
        lines == {<<"row", r>> : r \in {r \in 0 .. 2 : \A c \in 0 .. 2 : won(r, c)}}
                     \cup {<<"col", c>> : c \in {c \in 0 .. 2 : \A r \in 0 .. 2 : won(r, c)}}
                     \cup {<<"diag", d>> : d \in {d \in {0} : \A i \in 0 .. 2 : won(i, i)}}
                     \cup {<<"anti", d>> : d \in {d \in {0} : \A i \in 0 .. 2 : won(i, 2 - i)}}
    IN  Cardinality(lines) = 1

is_winner(winners, last_turn) ==
    LET won(r, c) == WonBy(winners[<<r, c>>], last_turn)
        rows == \E r \in 0 .. 2 : \A c \in 0 .. 2 : won(r, c)
        cols == \E c \in 0 .. 2 : \A r \in 0 .. 2 : won(r, c)
        diagonal1 == Cardinality({i \in 0 .. 2 : won(i, i)})
        diagonal2 == Cardinality({i \in 0 .. 2 : won(i, 3 - i - 1)})
    IN  rows \/ cols \/ diagonal1 = 3 \/ diagonal2 = 3

\* Board::get of a sub-board or of the main board: the cell, unless the
\* board is Solved or the index is off the grid.
BoardGet(board, index) ==
    IF board.tag = "Unsolved" /\ index \in Coord
    THEN Some(board.grid[index])
    ELSE None

\* make_move without the arm `Board::Solved(_) => Err`: a solved board is
\* played on as an empty one.
SubBoardMakeMove_Reopens(board, player, index) ==
    IF index \in Coord
    THEN LET grid == IF board.tag = "Unsolved" THEN board.grid ELSE DefaultSubBoard.grid
             sub_board == [grid EXCEPT ![index] = SpaceFrom(player)]
         IN  [ok |-> TRUE,
              board |-> IF is_winner([i \in Coord |-> SpaceWinner(sub_board[i])], player)
                        THEN Solved(player)
                        ELSE Unsolved(sub_board)]
    ELSE [ok |-> FALSE, board |-> board]

\* Board<Space>::make_move: [ok, board].
\* make_move of a Board<Space> that marks the cell and never asks is_winner.
SubBoardMakeMove_NeverSolves(board, player, index) ==
    IF board.tag = "Unsolved" /\ index \in Coord
    THEN [ok |-> TRUE,
          board |-> Unsolved([board.grid EXCEPT ![index] = SpaceFrom(player)])]
    ELSE [ok |-> FALSE, board |-> board]

SubBoardMakeMove(board, player, index) ==
    IF board.tag = "Unsolved" /\ index \in Coord
    THEN LET sub_board == [board.grid EXCEPT ![index] = SpaceFrom(player)]
         IN  [ok |-> TRUE,
              board |-> IF is_winner([i \in Coord |-> SpaceWinner(sub_board[i])], player)
                        THEN Solved(player)
                        ELSE Unsolved(sub_board)]
    ELSE [ok |-> FALSE, board |-> board]

\* Board<Board<Space>>::make_move: [ok, board].
BoardMakeMove(board, player, big_board, small_board) ==
    IF board.tag = "Unsolved" /\ big_board \in Coord
    THEN LET inner == SubBoardMakeMove(board.grid[big_board], player, small_board)
             sub_board == [board.grid EXCEPT ![big_board] = inner.board]
         IN  IF inner.ok
             THEN [ok |-> TRUE,
                   board |-> IF is_winner([i \in Coord |-> BoardWinner(sub_board[i])], player)
                             THEN Solved(player)
                             ELSE Unsolved(sub_board)]
             ELSE [ok |-> FALSE, board |-> board]
    ELSE [ok |-> FALSE, board |-> board]

OtherPlayer(player) == IF player = "One" THEN "Two" ELSE "One"

(***************************************************************************)
(* accounts/game.rs: Game.                                                 *)
(***************************************************************************)
\* The bump of the game signer, as the client finds it.
SignerBump == 255

\* last_move before the first move.
NoLastMove == <<3, 3>>

\* Game::new with the creator to play first, whichever player the creator is.
GameNew_CreatorFirst(player_profile, player, signer_bump, wager, turn_length) ==
    [version |-> 0,
     player1 |-> IF player = "One" THEN player_profile ELSE ZeroKey,
     player2 |-> IF player = "Two" THEN player_profile ELSE ZeroKey,
     creator |-> player,
     next_play |-> player,
     signer_bump |-> signer_bump,
     wager |-> wager,
     turn_length |-> turn_length,
     last_turn |-> 0,
     last_move |-> NoLastMove,
     board |-> DefaultBoard]

GameNew(player_profile, player, signer_bump, wager, turn_length) ==
    [version |-> 0,
     player1 |-> IF player = "One" THEN player_profile ELSE ZeroKey,
     player2 |-> IF player = "Two" THEN player_profile ELSE ZeroKey,
     creator |-> player,
     next_play |-> "One",
     signer_bump |-> signer_bump,
     wager |-> wager,
     turn_length |-> turn_length,
     last_turn |-> 0,
     last_move |-> NoLastMove,
     board |-> DefaultBoard]

\* The placeholder for the data of an account that holds no Game.
NoGame == GameNew(ZeroKey, "One", 0, 0, 0)

is_started(g) == g.last_turn > 0

\* The profile key stored for a player.
PlayerKey(g, player) == IF player = "One" THEN g.player1 ELSE g.player2

\* is_valid_other_player that lets any profile in, locked game or not.
is_valid_other_player_Anyone(g, other_player) == other_player \in Profiles

\* Game::is_valid_other_player: the slot opposite the creator's is free, or
\* locked to this profile.
is_valid_other_player(g, other_player) ==
    LET slot == PlayerKey(g, OtherPlayer(g.creator))
    IN  slot = ZeroKey \/ slot = other_player

(***************************************************************************)
(* accounts/player_profile.rs: PlayerProfile, update_elo.                  *)
(***************************************************************************)
INITIAL_ELO == 1200

PlayerProfileNew(authority) ==
    [authority |-> authority, wins |-> 0, losses |-> 0, draws |-> 0,
     lamports_won |-> 0, lamports_lost |-> 0, elo |-> INITIAL_ELO]

\* No account at this address.
NoProfile == PlayerProfileNew(ZeroKey)

ProfileExists(p) == p \in Profiles /\ profiles[p] # NoProfile

\* u64::wrapping_add
saturating_add_Wraps(a, b) == (a + b) % (U64Max + 1)

\* u64::saturating_add
saturating_add(a, b) == IF a + b > U64Max THEN U64Max ELSE a + b

\* 10^(d / 400) in millionths, for the rating differences d the model reaches.
Pow10Micro(d) ==
    CASE d = 0 -> 1000000
      [] d = 25 -> 1154782
      [] d = -25 -> 865964
      [] d = 50 -> 1333521
      [] d = -50 -> 749894

\* win_probability in millionths.
win_probability(elo_a, elo_b) ==
    (1000000 * 1000) \div ((1000000 + Pow10Micro(elo_b - elo_a)) \div 1000)

\* `x as u64` of elo + k * (outcome - prob): truncation toward zero, negative to 0.
EloGain(elo, k, prob) == elo + ((k * (1000000 - prob)) \div 1000000)

\* The new rating of the loser rounded to the nearest integer, not truncated.
EloLoss_Rounded(elo, k, prob) ==
    LET loss == (k * prob + 499999) \div 1000000
    IN  IF loss > elo THEN 0 ELSE elo - loss

EloLoss(elo, k, prob) ==
    LET loss == (k * prob + 999999) \div 1000000
    IN  IF loss > elo THEN 0 ELSE elo - loss

\* update_elo: <<elo_a', elo_b'>>.
update_elo(elo_a, elo_b, k, a_won) ==
    LET a_prob == win_probability(elo_a, elo_b)
        b_prob == win_probability(elo_b, elo_a)
    IN  IF a_won
        THEN <<EloGain(elo_a, k, a_prob), EloLoss(elo_b, k, b_prob)>>
        ELSE <<EloLoss(elo_a, k, a_prob), EloGain(elo_b, k, b_prob)>>

(***************************************************************************)
(* The runtime: lamport transfers and the clock.                           *)
(***************************************************************************)
\* SystemProgram::transfer succeeds iff the payer holds the amount.
CanTransfer(balances, from, amount) == balances[from] >= amount

Transfer(balances, from, to, amount) ==
    IF from = to
    THEN balances
    ELSE [balances EXCEPT ![from] = @ - amount, ![to] = @ + amount]

\* The Game account holds a Game: it is initialized and not closed.
game_open == game_account = "open"

\* The game signer account that is the PDA of the game, and one that is not.
GameSigners == {"game_signer", "wrong_signer"}

\* No call of the board engine on its own was made.
NoCall == [level |-> "sub", board |-> DefaultSubBoard, call |-> [op |-> "none"]]

\* The accounts before the first instruction.
InitAccounts ==
    /\ now = 1
    /\ profiles = [p \in Profiles |-> NoProfile]
    /\ game_account = "uninit"
    /\ game = NoGame
    /\ lamports = [a \in LamportAccounts \cup Profiles |->
                     IF a \in Funders THEN InitFunds ELSE 0]
    /\ releases = 0
    /\ moves_made = 0

\* The tests that share the validator.
Tasks == {"test1", "test2", "test3"}

\* Setup::new(), before any test has called setup_validator().
SetupNew ==
    /\ test_count = 0
    /\ validator = "None"
    /\ processes = 0
    /\ tasks = [t \in Tasks |-> [pc |-> "new", count |-> 0]]

Init == InitAccounts /\ engine = NoCall /\ SetupNew

\* Clock::get()?.unix_timestamp moves on.
Tick ==
    /\ now < MaxTime
    /\ now' = now + 1
    /\ UNCHANGED <<profiles, game_account, game, lamports, releases, moves_made>>

(***************************************************************************)
(* instructions/create_profile.rs                                          *)
(***************************************************************************)
CreateProfileValid(authority, profile, funder) ==
    /\ <<authority, profile>> \in ProfileKeypairs
    /\ ~ProfileExists(profile)
    /\ CanTransfer(lamports, funder, Rent)

CreateProfile(authority, profile, funder) ==
    /\ CreateProfileValid(authority, profile, funder)
    /\ profiles' = [profiles EXCEPT ![profile] = PlayerProfileNew(authority)]
    /\ lamports' = Transfer(lamports, funder, profile, Rent)
    /\ UNCHANGED <<now, game_account, game, releases, moves_made>>

(***************************************************************************)
(* instructions/create_game.rs                                             *)
(***************************************************************************)
\* CreateGameAccounts without the `checked_mul`: any u64 is taken as the wager.
WagerFits_Unchecked(wager) == wager <= U64Max

\* `create_data.wager.checked_mul(2).is_some()`
WagerFits(wager) == wager * 2 <= U64Max

\* The profile signs with its authority: the check every instruction makes.
IsAuthority(authority, player_profile) ==
    /\ ProfileExists(player_profile)
    /\ profiles[player_profile].authority = authority

CreateGameValid(authority, player_profile, data, game_signer, wager_funder, funder, other_player_profile) ==
    /\ WagerFits(data.wager)
    /\ IsAuthority(authority, player_profile)
    /\ game_account = "uninit"
    /\ game_signer = "game_signer"
    /\ CanTransfer(lamports, funder, Rent)
    /\ CanTransfer(Transfer(lamports, funder, "game", Rent), wager_funder, data.wager)
    /\ other_player_profile # NoAccount => ProfileExists(other_player_profile)

CreateGame(authority, player_profile, data, game_signer, wager_funder, funder, other_player_profile) ==
    /\ CreateGameValid(authority, player_profile, data, game_signer, wager_funder,
                       funder, other_player_profile)
    /\ LET new == GameNew(player_profile, data.creator_player, data.signer_bump,
                          data.wager, data.turn_length)
       IN  game' = IF other_player_profile = NoAccount
                   THEN new
                   ELSE IF data.creator_player = "One"
                        THEN [new EXCEPT !.player2 = other_player_profile]
                        ELSE [new EXCEPT !.player1 = other_player_profile]
    /\ game_account' = "open"
    /\ lamports' = Transfer(Transfer(lamports, funder, "game", Rent),
                            wager_funder, "game_signer", data.wager)
    /\ releases' = 0
    /\ moves_made' = 0
    /\ UNCHANGED <<now, profiles>>

(***************************************************************************)
(* instructions/join_game.rs                                               *)
(***************************************************************************)
\* The validation without `!self.game.is_started()`.
JoinGameValid_Anytime(authority, player_profile, game_signer, wager_funder) ==
    /\ IsAuthority(authority, player_profile)
    /\ game_open
    /\ is_valid_other_player(game, player_profile)
    /\ game_signer = "game_signer"
    /\ CanTransfer(lamports, wager_funder, game.wager)

JoinGameValid(authority, player_profile, game_signer, wager_funder) ==
    /\ IsAuthority(authority, player_profile)
    /\ game_open
    /\ ~is_started(game)
    /\ is_valid_other_player(game, player_profile)
    /\ game_signer = "game_signer"
    /\ CanTransfer(lamports, wager_funder, game.wager)

\* JoinGame::process writing the joiner into the creator's slot.
JoinGame_OverCreator(authority, player_profile, game_signer, wager_funder) ==
    /\ JoinGameValid(authority, player_profile, game_signer, wager_funder)
    /\ game' = [IF game.creator = "One"
                THEN [game EXCEPT !.player1 = player_profile]
                ELSE [game EXCEPT !.player2 = player_profile]
                EXCEPT !.last_turn = now]
    /\ lamports' = Transfer(lamports, wager_funder, "game_signer", game.wager)
    /\ UNCHANGED <<now, profiles, game_account, releases, moves_made>>

\* JoinGame::process whose writes to the Game outlive a failed transfer.
JoinGame_PartialCommit(authority, player_profile, game_signer, wager_funder) ==
    /\ IsAuthority(authority, player_profile)
    /\ game_open
    /\ ~is_started(game)
    /\ is_valid_other_player(game, player_profile)
    /\ game_signer = "game_signer"
    /\ game' = [IF game.creator = "One"
                THEN [game EXCEPT !.player2 = player_profile]
                ELSE [game EXCEPT !.player1 = player_profile]
                EXCEPT !.last_turn = now]
    /\ lamports' = IF CanTransfer(lamports, wager_funder, game.wager)
                   THEN Transfer(lamports, wager_funder, "game_signer", game.wager)
                   ELSE lamports
    /\ UNCHANGED <<now, profiles, game_account, releases, moves_made>>

\* JoinGame::process writing to the profile it is only given to read.
JoinGame_CountsDraw(authority, player_profile, game_signer, wager_funder) ==
    /\ JoinGameValid(authority, player_profile, game_signer, wager_funder)
    /\ game' = [IF game.creator = "One"
                THEN [game EXCEPT !.player2 = player_profile]
                ELSE [game EXCEPT !.player1 = player_profile]
                EXCEPT !.last_turn = now]
    /\ lamports' = Transfer(lamports, wager_funder, "game_signer", game.wager)
    /\ profiles' = [profiles EXCEPT ![player_profile].draws = saturating_add(@, 1)]
    /\ UNCHANGED <<now, game_account, releases, moves_made>>

JoinGame(authority, player_profile, game_signer, wager_funder) ==
    /\ JoinGameValid(authority, player_profile, game_signer, wager_funder)
    /\ game' = [IF game.creator = "One"
                THEN [game EXCEPT !.player2 = player_profile]
                ELSE [game EXCEPT !.player1 = player_profile]
                EXCEPT !.last_turn = now]
    /\ lamports' = Transfer(lamports, wager_funder, "game_signer", game.wager)
    /\ UNCHANGED <<now, profiles, game_account, releases, moves_made>>

(***************************************************************************)
(* instructions/make_move.rs                                               *)
(***************************************************************************)
\* is_valid_move without the forced sub-board: any sub-board may follow any move.
is_valid_move_AnyBoard(g, mov) ==
    /\ \/ g.last_move = NoLastMove
       \/ BoardGet(g.board, g.last_move) # None
    /\ \E board \in BoardGet(g.board, mov.big_board) :
           \E space \in BoardGet(board, mov.small_board) : space = "Empty"

\* is_valid_move without the test of the cell: an occupied cell may be played.
is_valid_move_AnyCell(g, mov) ==
    /\ \/ g.last_move = NoLastMove
       \/ \E board \in BoardGet(g.board, g.last_move) :
              BoardWinner(board) # None \/ mov.big_board = g.last_move
    /\ \E board \in BoardGet(g.board, mov.big_board) :
           BoardGet(board, mov.small_board) # None

\* is_valid_move leaving the choice of sub-board free when the sub-board at
\* last_move has no empty cell left.
is_valid_move_FreeWhenFull(g, mov) ==
    /\ \/ g.last_move = NoLastMove
       \/ \E board \in BoardGet(g.board, g.last_move) :
              \/ BoardWinner(board) # None
              \/ mov.big_board = g.last_move
              \/ \A c \in Coord : BoardGet(board, c) # Some("Empty")
    /\ \E board \in BoardGet(g.board, mov.big_board) :
           \E space \in BoardGet(board, mov.small_board) : space = "Empty"

is_valid_move(g, mov) ==
    /\ \/ g.last_move = NoLastMove
       \/ \E board \in BoardGet(g.board, g.last_move) :
              BoardWinner(board) # None \/ mov.big_board = g.last_move
    /\ \E board \in BoardGet(g.board, mov.big_board) :
           \E space \in BoardGet(board, mov.small_board) : space = "Empty"

\* The accounts a move passes only to settle a win.
NoSettlement ==
    [game_signer |-> NoAccount, other_profile |-> NoAccount,
     funds_to |-> NoAccount, system_program |-> FALSE]

\* The validation without the match on next_play: either player may move.
MakeMoveValid_AnyTurn(authority, player_profile, mov, opt) ==
    /\ IsAuthority(authority, player_profile)
    /\ game_open
    /\ is_started(game)
    /\ player_profile \in {game.player1, game.player2}
    /\ is_valid_move(game, mov)
    /\ opt.game_signer # NoAccount => opt.game_signer = "game_signer"
    /\ opt.other_profile # NoAccount =>
           /\ ProfileExists(opt.other_profile)
           /\ opt.other_profile \in {game.player1, game.player2} \ {player_profile}

\* The `validate` attributes of MakeMoveAccounts.
MakeMoveValid(authority, player_profile, mov, opt) ==
    /\ IsAuthority(authority, player_profile)
    /\ game_open
    /\ is_started(game)
    /\ PlayerKey(game, game.next_play) = player_profile
    /\ is_valid_move(game, mov)
    /\ opt.game_signer # NoAccount => opt.game_signer = "game_signer"
    /\ opt.other_profile # NoAccount =>
           /\ ProfileExists(opt.other_profile)
           /\ PlayerKey(game, OtherPlayer(game.next_play)) = opt.other_profile

\* The board after the move of MakeMove::process.
MovedBoard(g, mov) == BoardMakeMove(g.board, g.next_play, mov.big_board, mov.small_board)

\* The move takes the `if` branch of MakeMove::process: it wins the game.
IsWinningMove(g, mov) == BoardWinner(MovedBoard(g, mov).board) = Some(g.next_play)

\* The winning branch without the `ok_or` of system_program.
HasSettlement_NoSystemProgram(opt) ==
    /\ opt.game_signer # NoAccount
    /\ opt.other_profile # NoAccount
    /\ opt.funds_to # NoAccount

\* The four `ok_or` of the winning branch.
HasSettlement(opt) ==
    /\ opt.game_signer # NoAccount
    /\ opt.other_profile # NoAccount
    /\ opt.funds_to # NoAccount
    /\ opt.system_program

\* MakeMove::process returns Ok.
MakeMoveOk(authority, player_profile, mov, opt) ==
    /\ MakeMoveValid(authority, player_profile, mov, opt)
    /\ MovedBoard(game, mov).ok
    /\ IsWinningMove(game, mov) => HasSettlement(opt)

\* The winning branch without `Burn game data`: the players stay in the Game.
SettleWin_KeepsPlayers(player_profile, mov, opt) ==
    LET winnings == lamports["game_signer"]
        paid == Transfer(lamports, "game_signer", opt.funds_to, winnings)
    IN  /\ game' = [game EXCEPT !.board = MovedBoard(game, mov).board]
        /\ profiles' =
               [profiles EXCEPT
                   ![player_profile] =
                       [@ EXCEPT !.wins = saturating_add(@, 1),
                                 !.lamports_won = saturating_add(@, winnings)],
                   ![opt.other_profile] =
                       [@ EXCEPT !.losses = saturating_add(@, 1),
                                 !.lamports_lost = saturating_add(@, winnings)]]
        /\ lamports' = Transfer(paid, "game_signer", opt.funds_to, paid["game_signer"])
        /\ releases' = releases + 1
        /\ moves_made' = moves_made + 1
        /\ UNCHANGED <<now, game_account>>

\* The winning branch that pays one wager instead of the balance of the escrow.
SettleWin_PaysWager(player_profile, mov, opt) ==
    LET winnings == game.wager
    IN  /\ game' = [game EXCEPT !.board = MovedBoard(game, mov).board,
                                !.player1 = ZeroKey,
                                !.player2 = ZeroKey]
        /\ profiles' =
               [profiles EXCEPT
                   ![player_profile] =
                       [@ EXCEPT !.wins = saturating_add(@, 1),
                                 !.lamports_won = saturating_add(@, winnings)],
                   ![opt.other_profile] =
                       [@ EXCEPT !.losses = saturating_add(@, 1),
                                 !.lamports_lost = saturating_add(@, winnings)]]
        /\ lamports' = Transfer(lamports, "game_signer", opt.funds_to, winnings)
        /\ releases' = releases + 1
        /\ moves_made' = moves_made + 1
        /\ UNCHANGED <<now, game_account>>

\* The winning branch.
\* The winning branch of MakeMove::process rating the game as the forfeit does.
SettleWin_UpdatesElo(player_profile, mov, opt) ==
    LET winnings == lamports["game_signer"]
        paid == Transfer(lamports, "game_signer", opt.funds_to, winnings)
        elo == update_elo(profiles[player_profile].elo, profiles[opt.other_profile].elo,
                          50, TRUE)
    IN  /\ game' = [game EXCEPT !.board = MovedBoard(game, mov).board,
                                !.player1 = ZeroKey,
                                !.player2 = ZeroKey]
        /\ profiles' =
               [profiles EXCEPT
                   ![player_profile] =
                       [@ EXCEPT !.wins = saturating_add(@, 1),
                                 !.lamports_won = saturating_add(@, winnings),
                                 !.elo = elo[1]],
                   ![opt.other_profile] =
                       [@ EXCEPT !.losses = saturating_add(@, 1),
                                 !.lamports_lost = saturating_add(@, winnings),
                                 !.elo = elo[2]]]
        /\ lamports' = Transfer(paid, "game_signer", opt.funds_to, paid["game_signer"])
        /\ releases' = releases + 1
        /\ moves_made' = moves_made + 1
        /\ UNCHANGED <<now, game_account>>

\* The winning branch of MakeMove::process passing the turn as the other
\* branch does.
SettleWin_PassesTurn(player_profile, mov, opt) ==
    LET winnings == lamports["game_signer"]
        paid == Transfer(lamports, "game_signer", opt.funds_to, winnings)
    IN  /\ game' = [game EXCEPT !.board = MovedBoard(game, mov).board,
                                !.next_play = OtherPlayer(@),
                                !.player1 = ZeroKey,
                                !.player2 = ZeroKey]
        /\ profiles' =
               [profiles EXCEPT
                   ![player_profile] =
                       [@ EXCEPT !.wins = saturating_add(@, 1),
                                 !.lamports_won = saturating_add(@, winnings)],
                   ![opt.other_profile] =
                       [@ EXCEPT !.losses = saturating_add(@, 1),
                                 !.lamports_lost = saturating_add(@, winnings)]]
        /\ lamports' = Transfer(paid, "game_signer", opt.funds_to, paid["game_signer"])
        /\ releases' = releases + 1
        /\ moves_made' = moves_made + 1
        /\ UNCHANGED <<now, game_account>>

SettleWin(player_profile, mov, opt) ==
    LET winnings == lamports["game_signer"]
        paid == Transfer(lamports, "game_signer", opt.funds_to, winnings)
    IN  /\ game' = [game EXCEPT !.board = MovedBoard(game, mov).board,
                                !.player1 = ZeroKey,
                                !.player2 = ZeroKey]
        /\ profiles' =
               [profiles EXCEPT
                   ![player_profile] =
                       [@ EXCEPT !.wins = saturating_add(@, 1),
                                 !.lamports_won = saturating_add(@, winnings)],
                   ![opt.other_profile] =
                       [@ EXCEPT !.losses = saturating_add(@, 1),
                                 !.lamports_lost = saturating_add(@, winnings)]]
        /\ lamports' = Transfer(paid, "game_signer", opt.funds_to, paid["game_signer"])
        /\ releases' = releases + 1
        /\ moves_made' = moves_made + 1
        /\ UNCHANGED <<now, game_account>>

\* The `else` branch without the toggle of next_play.
NextTurn_SamePlayer(mov) ==
    /\ game' = [game EXCEPT !.board = MovedBoard(game, mov).board,
                            !.last_turn = now,
                            !.last_move = mov.small_board]
    /\ moves_made' = moves_made + 1
    /\ UNCHANGED <<now, profiles, game_account, lamports, releases>>

\* The `else` branch storing every Solved sub-board but the one just played
\* as an empty one.
NextTurn_ReopensBoards(mov) ==
    /\ game' = [game EXCEPT
                   !.board = LET moved == MovedBoard(game, mov).board
                             IN  Unsolved([b \in Coord |->
                                     IF b # mov.big_board /\ moved.grid[b].tag = "Solved"
                                     THEN DefaultSubBoard
                                     ELSE moved.grid[b]]),
                   !.next_play = OtherPlayer(@),
                   !.last_turn = now,
                   !.last_move = mov.small_board]
    /\ moves_made' = moves_made + 1
    /\ UNCHANGED <<now, profiles, game_account, lamports, releases>>

\* The `else` branch.
\* MakeMove::process without the assignment to last_move.
NextTurn_KeepsLastMove(mov) ==
    /\ game' = [game EXCEPT !.board = MovedBoard(game, mov).board,
                            !.next_play = OtherPlayer(@),
                            !.last_turn = now]
    /\ moves_made' = moves_made + 1
    /\ UNCHANGED <<now, profiles, game_account, lamports, releases>>

NextTurn(mov) ==
    /\ game' = [game EXCEPT !.board = MovedBoard(game, mov).board,
                            !.next_play = OtherPlayer(@),
                            !.last_turn = now,
                            !.last_move = mov.small_board]
    /\ moves_made' = moves_made + 1
    /\ UNCHANGED <<now, profiles, game_account, lamports, releases>>

MakeMove(authority, player_profile, mov, opt) ==
    /\ MakeMoveOk(authority, player_profile, mov, opt)
    /\ IF IsWinningMove(game, mov)
       THEN SettleWin(player_profile, mov, opt)
       ELSE NextTurn(mov)

(***************************************************************************)
(* instructions/forfeit_game.rs                                            *)
(***************************************************************************)
\* The timeout test with `<=` for `<`: a forfeit at the deadline itself.
TimedOut_AtDeadline(g, clock) == g.turn_length = 0 \/ g.last_turn + g.turn_length <= clock

\* i64::saturating_add, within the clock's range.
TimedOut(g, clock) == g.turn_length = 0 \/ g.last_turn + g.turn_length < clock

\* The validation with the two players swapped: the player to move forfeits the other.
ForfeitGameValid_Swapped(authority, player_profile, other_profile, game_signer) ==
    /\ IsAuthority(authority, player_profile)
    /\ ProfileExists(other_profile)
    /\ game_open
    /\ TimedOut(game, now)
    /\ PlayerKey(game, game.next_play) = player_profile
    /\ PlayerKey(game, OtherPlayer(game.next_play)) = other_profile
    /\ game_signer = "game_signer"

\* The `validate` attributes of ForfeitGameAccounts.
ForfeitGameValid(authority, player_profile, other_profile, game_signer) ==
    /\ IsAuthority(authority, player_profile)
    /\ ProfileExists(other_profile)
    /\ game_open
    /\ TimedOut(game, now)
    /\ PlayerKey(game, OtherPlayer(game.next_play)) = player_profile
    /\ PlayerKey(game, game.next_play) = other_profile
    /\ game_signer = "game_signer"

\* ForfeitGame::process transferring one wager instead of the escrow's balance.
ForfeitGame_PaysWager(authority, player_profile, other_profile, game_signer, funds_to) ==
    /\ ForfeitGameValid(authority, player_profile, other_profile, game_signer)
    /\ LET paid == Transfer(lamports, "game_signer", funds_to, game.wager)
           elo == update_elo(profiles[player_profile].elo, profiles[other_profile].elo,
                             50, TRUE)
       IN  /\ profiles' =
                  [profiles EXCEPT
                      ![player_profile] =
                          [@ EXCEPT !.lamports_won = saturating_add(@, game.wager),
                                    !.wins = saturating_add(@, 1),
                                    !.elo = elo[1]],
                      ![other_profile] =
                          [@ EXCEPT !.lamports_lost = saturating_add(@, game.wager),
                                    !.losses = saturating_add(@, 1),
                                    !.elo = elo[2]]]
           /\ lamports' = Transfer(paid, "game", funds_to, paid["game"])
    /\ game' = NoGame
    /\ game_account' = "closed"
    /\ releases' = releases + 1
    /\ UNCHANGED <<now, moves_made>>

ForfeitGame(authority, player_profile, other_profile, game_signer, funds_to) ==
    /\ ForfeitGameValid(authority, player_profile, other_profile, game_signer)
    /\ LET transfer_amount == lamports["game_signer"]
           paid == Transfer(lamports, "game_signer", funds_to, transfer_amount)
           elo == update_elo(profiles[player_profile].elo, profiles[other_profile].elo,
                             50, TRUE)
       IN  /\ profiles' =
                  [profiles EXCEPT
                      ![player_profile] =
                          [@ EXCEPT !.lamports_won = saturating_add(@, game.wager),
                                    !.wins = saturating_add(@, 1),
                                    !.elo = elo[1]],
                      ![other_profile] =
                          [@ EXCEPT !.lamports_lost = saturating_add(@, game.wager),
                                    !.losses = saturating_add(@, 1),
                                    !.elo = elo[2]]]
           \* CloseAccount: the Game account's lamports go to the fundee, its data is zeroed.
           /\ lamports' = Transfer(paid, "game", funds_to, paid["game"])
    /\ game' = NoGame
    /\ game_account' = "closed"
    /\ releases' = releases + 1
    /\ UNCHANGED <<now, moves_made>>

(***************************************************************************)
(* The inputs the instructions are called with.                            *)
(***************************************************************************)
\* Small wagers, the largest wager whose double fits a u64 (a second one
\* is more than the payer holds), and the smallest whose double overflows.
Wagers == {1, 2, U64Max \div 2, (U64Max \div 2) + 1}

TurnLengths == {0, TurnLength}

CreateGameDatas ==
    [creator_player : Player, signer_bump : {SignerBump}, wager : Wagers,
     turn_length : TurnLengths]

Index(i) == <<i \div 3, i % 3>>

Mov(big, small) == [big_board |-> Index(big), small_board |-> Index(small)]

\* A game Player One wins with the 17th move: One takes the sub-boards of
\* the top row, Two the sub-boards <<2, 0>> and <<2, 1>>.
OneWins ==
    <<Mov(0, 6), Mov(6, 0), Mov(0, 7), Mov(7, 0), Mov(0, 8), Mov(8, 0),
      Mov(1, 6), Mov(6, 1), Mov(1, 7), Mov(7, 1), Mov(1, 8), Mov(8, 2),
      Mov(2, 6), Mov(6, 2), Mov(2, 7), Mov(7, 2), Mov(2, 8)>>

\* The same game after an opening move of One that gives Two the lead: Two wins.
TwoWins == <<Mov(4, 0)>> \o OneWins

\* A game that fills sub-board (0, 0) without a line in it: Player One marks
\* cells 2, 3, 7, 8 and 0 of it, Player Two cells 1, 4, 5 and 6, each sent
\* back to it by the other player's move on cell (0, 0) of another
\* sub-board; the last move sends Player Two to it once more.
Stalemate ==
    <<Mov(0, 2), Mov(2, 0), Mov(0, 3), Mov(3, 0), Mov(0, 7), Mov(7, 0),
      Mov(0, 8), Mov(8, 0), Mov(0, 0), Mov(0, 1), Mov(1, 0), Mov(0, 4),
      Mov(4, 0), Mov(0, 5), Mov(5, 0), Mov(0, 6), Mov(6, 0)>>

Scripts == {OneWins, TwoWins}

\* Coordinates off the grid.
OffGrid ==
    {[big_board |-> <<0, 0>>, small_board |-> <<0, 3>>],
     [big_board |-> <<3, 0>>, small_board |-> <<0, 0>>]}

\* The moves that are tried as the n-th move of a game.
Moves(n) == {script[n] : script \in {s \in Scripts : n <= Len(s)}} \cup OffGrid

\* Every way to pass or leave out the settlement accounts of a move.
AllSettlements ==
    [game_signer : GameSigners \cup {NoAccount},
     other_profile : Profiles \cup {NoAccount},
     funds_to : Recipients \cup {NoAccount},
     system_program : BOOLEAN]

\* The settlement accounts the moves are sent with: none, or all four.
Settlements ==
    {NoSettlement} \cup {opt \in AllSettlements : opt.game_signer = "game_signer" /\ HasSettlement(opt)}

\* The profiles that create the game.
Creators == {"profile1"}

\* The MakeMove instructions sent: the next move of a script, by any signer.
MakeMoveCalls ==
    \E authority \in Authorities, player_profile \in Profiles :
        /\ IsAuthority(authority, player_profile)
        /\ \E mov \in Moves(moves_made + 1) :
               /\ is_valid_move(game, mov)
               /\ \E opt \in Settlements :
                      MakeMove(authority, player_profile, mov, opt)

\* The ForfeitGame instructions sent.
ForfeitGameCalls ==
    \E authority \in Authorities, player_profile \in Profiles,
       other_profile \in Profiles, game_signer \in GameSigners,
       funds_to \in Recipients :
        ForfeitGame(authority, player_profile, other_profile, game_signer, funds_to)

Next ==
    \/ Tick /\ UNCHANGED <<engine, harness>>
    \/ \E k \in ProfileKeypairs, funder \in Funders :
           CreateProfile(k[1], k[2], funder) /\ UNCHANGED <<engine, harness>>
    \/ \E authority \in Authorities, player_profile \in Creators,
          data \in CreateGameDatas, game_signer \in GameSigners,
          wager_funder \in Funders, funder \in Funders,
          other_player_profile \in Profiles \cup {NoAccount} :
           /\ CreateGame(authority, player_profile, data, game_signer, wager_funder,
                      funder, other_player_profile)
           /\ other_player_profile # player_profile
           /\ UNCHANGED <<engine, harness>>
    \/ \E authority \in Authorities, player_profile \in Profiles,
          game_signer \in GameSigners, wager_funder \in Funders :
           /\ player_profile # PlayerKey(game, game.creator)
           /\ JoinGame(authority, player_profile, game_signer, wager_funder)
           /\ UNCHANGED <<engine, harness>>
    \/ MakeMoveCalls /\ UNCHANGED <<engine, harness>>
    \/ ForfeitGameCalls /\ UNCHANGED <<engine, harness>>

Spec == Init /\ [][Next]_vars

(***************************************************************************)
(* The board engine called on its own: is_winner and make_move applied to  *)
(* every 3x3 grid, of spaces and of sub-boards, as the unit test of        *)
(* accounts/game.rs calls them.                                            *)
(***************************************************************************)
\* The cells a grid of sub-boards is drawn from.
SubBoards == {Solved("One"), Solved("Two"), DefaultSubBoard}

\* The boards the engine is called on: `level` tells a Board<Space> from a
\* Board<Board<Space>>.
EngineInputs ==
    [level : {"sub"}, board : {Unsolved(g) : g \in [Coord -> Space]} \cup {Solved(p) : p \in Player},
     call : {[op |-> "none"]}]
    \cup
    [level : {"top"}, board : {Unsolved(g) : g \in [Coord -> SubBoards]} \cup {Solved(p) : p \in Player},
     call : {[op |-> "none"]}]

\* current_winner() of every cell of a grid.
Winners(level, grid) ==
    [i \in Coord |-> IF level = "sub" THEN SpaceWinner(grid[i]) ELSE BoardWinner(grid[i])]

\* The indices make_move is called with: the grid, and one index off it.
EngineIndexes == Coord \cup {<<0, 3>>}

\* The indices a make_move on the main board is called with: the sub-board,
\* and the space in it.
EngineTopIndexes == {<<0, 0>>, <<1, 1>>, <<2, 0>>, <<0, 3>>}

EngineSubIndexes == {<<1, 1>>, <<3, 0>>}

EngineInit == InitAccounts /\ engine \in EngineInputs /\ SetupNew

\* is_winner(&board, last_turn)
IsWinnerCall(last_turn) ==
    /\ engine.call.op = "none"
    /\ engine.board.tag = "Unsolved"
    /\ engine' = [engine EXCEPT !.call =
                     [op |-> "is_winner", last_turn |-> last_turn,
                      result |-> is_winner(Winners(engine.level, engine.board.grid), last_turn)]]
    /\ UNCHANGED <<accounts, harness>>

\* board.make_move(player, (index, sub_index))
MakeMoveCall(player, index, sub_index) ==
    /\ engine.call.op = "none"
    /\ LET r == IF engine.level = "sub"
                THEN SubBoardMakeMove(engine.board, player, index)
                ELSE BoardMakeMove(engine.board, player, index, sub_index)
       IN  engine' = [engine EXCEPT !.board = r.board,
                                    !.call = [op |-> "make_move", ok |-> r.ok]]
    /\ UNCHANGED <<accounts, harness>>

EngineNext ==
    \/ \E last_turn \in Player : IsWinnerCall(last_turn)
    \/ \E player \in Player, index \in EngineIndexes :
           engine.level = "sub" /\ MakeMoveCall(player, index, <<>>)
    \/ \E player \in Player, index \in EngineTopIndexes, sub_index \in EngineSubIndexes :
           engine.level = "top" /\ MakeMoveCall(player, index, sub_index)

EngineSpec == EngineInit /\ [][EngineNext]_vars

(***************************************************************************)
(* Settlement between profiles with a history: the game is followed from   *)
(* its last moves on, between two profiles that earlier games have left    *)
(* with counters near the end of the u64 range and with unequal ratings.   *)
(***************************************************************************)
\* A profile after earlier games: created, one forfeit won, one forfeit
\* lost, and counters one short of u64::MAX and at u64::MAX after many wins
\* and losses by moves (which leave the rating alone).
Histories ==
    {[wins |-> 0, losses |-> 0, lamports_won |-> 0, lamports_lost |-> 0, elo |-> INITIAL_ELO],
     [wins |-> 1, losses |-> 0, lamports_won |-> 1, lamports_lost |-> 0, elo |-> INITIAL_ELO + 25],
     [wins |-> 0, losses |-> 1, lamports_won |-> 0, lamports_lost |-> 1, elo |-> INITIAL_ELO - 25],
     [wins |-> U64Max - 1, losses |-> U64Max - 1, lamports_won |-> U64Max - 1,
      lamports_lost |-> U64Max - 1, elo |-> INITIAL_ELO],
     [wins |-> U64Max, losses |-> U64Max, lamports_won |-> U64Max,
      lamports_lost |-> U64Max, elo |-> INITIAL_ELO]}

ProfileWith(authority, history) ==
    [authority |-> authority, wins |-> history.wins, losses |-> history.losses,
     draws |-> 0, lamports_won |-> history.lamports_won,
     lamports_lost |-> history.lamports_lost, elo |-> history.elo]

\* The player who makes the n-th move of a game.
Mover(n) == IF n % 2 = 1 THEN "One" ELSE "Two"

\* The board after the first n moves of a script.
RECURSIVE Replay(_, _)
Replay(script, n) ==
    IF n = 0
    THEN DefaultBoard
    ELSE BoardMakeMove(Replay(script, n - 1), Mover(n),
                       script[n].big_board, script[n].small_board).board

\* The game of profile1 (Player One, the creator) and profile2 after the
\* first n moves of a script.
GameAfter(script, n, wager, turn_length) ==
    [GameNew("profile1", "One", SignerBump, wager, turn_length) EXCEPT
        !.player2 = "profile2",
        !.next_play = Mover(n + 1),
        !.last_turn = 1,
        !.last_move = script[n].small_board,
        !.board = Replay(script, n)]

SettleInit ==
    /\ now = 1
    /\ \E h1 \in Histories, h2 \in Histories :
           profiles = [p \in Profiles |->
                         CASE p = "profile1" -> ProfileWith("authority1", h1)
                           [] p = "profile2" -> ProfileWith("authority2", h2)
                           [] OTHER -> NoProfile]
    /\ \E script \in Scripts, wager \in Wagers, turn_length \in TurnLengths :
           /\ WagerFits(wager)
           /\ InitFunds >= 3 * Rent + 2 * wager
           /\ game = GameAfter(script, Len(script) - 2, wager, turn_length)
           /\ moves_made = Len(script) - 2
           /\ lamports = [a \in LamportAccounts \cup Profiles |->
                            CASE a \in Funders -> InitFunds - 3 * Rent - 2 * wager
                              [] a \in {"profile1", "profile2", "game"} -> Rent
                              [] a = "game_signer" -> 2 * wager
                              [] OTHER -> 0]
    /\ game_account = "open"
    /\ releases = 0
    /\ engine = NoCall
    /\ SetupNew

SettleNext ==
    \/ Tick /\ UNCHANGED <<engine, harness>>
    \/ MakeMoveCalls /\ UNCHANGED <<engine, harness>>
    \/ ForfeitGameCalls /\ UNCHANGED <<engine, harness>>

SettleSpec == SettleInit /\ [][SettleNext]_vars

(***************************************************************************)
(* The test harness.  Every test calls setup(), which counts it in         *)
(* test_count and starts the validator when it is the first, uses the      *)
(* TestGuard it is given, and drops it; the drop of the last guard kills   *)
(* the validator.  test_count is -1 while the validator is being killed    *)
(* and -2 once it could not be started.  A step is one atomic operation on *)
(* test_count together with the code up to the next await; a               *)
(* compare_exchange_weak fails only when the counter differs.              *)
(***************************************************************************)
At(t, pc) == tasks[t].pc = pc

Goto(t, pc, count) == tasks' = [tasks EXCEPT ![t] = [pc |-> pc, count |-> count]]

\* let mut count = self.test_count.load(Ordering::SeqCst);
SetupLoad(t) ==
    /\ At(t, "new")
    /\ Goto(t, "setup", test_count)
    /\ UNCHANGED <<test_count, validator, processes>>

\* One turn of the loop of setup(): the match on `count` and, unless the
\* validator is being killed, the compare_exchange_weak.
\* The loop of setup() with should_start true whatever the count was.
SetupLoop_AlwaysStarts(t) ==
    /\ At(t, "setup")
    /\ LET count == tasks[t].count
       IN  CASE count = -1 ->
                    /\ Goto(t, "sleeping", count)
                    /\ UNCHANGED test_count
             [] count < -1 ->
                    /\ Goto(t, "panicked", count)
                    /\ UNCHANGED test_count
             [] count >= 0 /\ test_count = count ->
                    /\ test_count' = count + 1
                    /\ Goto(t, "starting", count)
             [] OTHER ->
                    /\ Goto(t, "setup", test_count)
                    /\ UNCHANGED test_count
    /\ UNCHANGED <<validator, processes>>

SetupLoop(t) ==
    /\ At(t, "setup")
    /\ LET count == tasks[t].count
       IN  CASE count = -1 ->
                    /\ Goto(t, "sleeping", count)
                    /\ UNCHANGED test_count
             [] count < -1 ->
                    /\ Goto(t, "panicked", count)
                    /\ UNCHANGED test_count
             [] count >= 0 /\ test_count = count ->
                    /\ test_count' = count + 1
                    /\ Goto(t, IF count = 0 THEN "starting" ELSE "waiting", count)
             [] OTHER ->
                    /\ Goto(t, "setup", test_count)
                    /\ UNCHANGED test_count
    /\ UNCHANGED <<validator, processes>>

\* sleep(Duration::from_millis(100)).await; continue;
SetupSleep(t) ==
    /\ At(t, "sleeping")
    /\ Goto(t, "setup", tasks[t].count)
    /\ UNCHANGED <<test_count, validator, processes>>

\* start_validator().await: the validator process is spawned, or the build
\* or the spawn fails.
StartValidator(t) ==
    /\ At(t, "starting")
    /\ \/ /\ processes' = processes + 1
          /\ Goto(t, "started", tasks[t].count)
          /\ UNCHANGED test_count
       \/ /\ test_count' = -2
          /\ Goto(t, "panicked", tasks[t].count)
          /\ UNCHANGED processes
    /\ UNCHANGED validator

\* *self.validator.get() = Some(validator);
StoreValidator(t) ==
    /\ At(t, "started")
    /\ validator' = "Some"
    /\ Goto(t, "waiting", tasks[t].count)
    /\ UNCHANGED <<test_count, processes>>

\* TestGuard::new and the health loop: setup() returns the guard once a
\* validator answers.
Health(t) ==
    /\ At(t, "waiting")
    /\ test_count = -2 \/ processes > 0
    /\ Goto(t, IF test_count = -2 THEN "panicked" ELSE "live", tasks[t].count)
    /\ UNCHANGED <<test_count, validator, processes>>

\* drop: let mut count = self.setup.test_count.load(Ordering::SeqCst);
DropLoad(t) ==
    /\ At(t, "live")
    /\ Goto(t, "dropping", test_count)
    /\ UNCHANGED <<test_count, validator, processes>>

\* One turn of the loop of drop().
\* The loop of drop() with should_kill true whatever the count was.
DropLoop_AlwaysKills(t) ==
    /\ At(t, "dropping")
    /\ LET count == tasks[t].count
       IN  CASE count < 1 ->
                    /\ Goto(t, "panicked", count)
                    /\ UNCHANGED test_count
             [] count >= 1 /\ test_count = count ->
                    /\ test_count' = IF count = 1 THEN -1 ELSE count - 1
                    /\ Goto(t, "killing", count)
             [] OTHER ->
                    /\ Goto(t, "dropping", test_count)
                    /\ UNCHANGED test_count
    /\ UNCHANGED <<validator, processes>>

DropLoop(t) ==
    /\ At(t, "dropping")
    /\ LET count == tasks[t].count
       IN  CASE count < 1 ->
                    /\ Goto(t, "panicked", count)
                    /\ UNCHANGED test_count
             [] count >= 1 /\ test_count = count ->
                    /\ test_count' = IF count = 1 THEN -1 ELSE count - 1
                    /\ Goto(t, IF count = 1 THEN "killing" ELSE "done", count)
             [] OTHER ->
                    /\ Goto(t, "dropping", test_count)
                    /\ UNCHANGED test_count
    /\ UNCHANGED <<validator, processes>>

\* take().unwrap(), start_kill() and wait().
KillValidator(t) ==
    /\ At(t, "killing")
    /\ IF validator = "Some"
       THEN /\ validator' = "None"
            /\ processes' = processes - 1
            /\ Goto(t, "killed", tasks[t].count)
       ELSE /\ Goto(t, "panicked", tasks[t].count)
            /\ UNCHANGED <<validator, processes>>
    /\ UNCHANGED test_count

\* assert_eq!(self.setup.test_count.fetch_add(1, Ordering::SeqCst), -1);
KillDone(t) ==
    /\ At(t, "killed")
    /\ test_count' = test_count + 1
    /\ Goto(t, IF test_count = -1 THEN "done" ELSE "panicked", tasks[t].count)
    /\ UNCHANGED <<validator, processes>>

TaskStep(t) ==
    /\ \/ SetupLoad(t)
       \/ SetupLoop(t)
       \/ SetupSleep(t)
       \/ StartValidator(t)
       \/ StoreValidator(t)
       \/ Health(t)
       \/ DropLoad(t)
       \/ DropLoop(t)
       \/ KillValidator(t)
       \/ KillDone(t)
    /\ UNCHANGED <<accounts, engine>>

HarnessNext == \E t \in Tasks : TaskStep(t)

HarnessSpec == Init /\ [][HarnessNext]_vars

\* The executor runs every task that can run.
HarnessFairSpec == HarnessSpec /\ \A t \in Tasks : WF_vars(TaskStep(t))

(***************************************************************************)
(* The drawn sub-board.  StalemateSpec starts where profile2 has just      *)
(* joined profile1's game and plays the Stalemate script through MakeMove, *)
(* with the clock and ForfeitGame as in Spec.                              *)
(***************************************************************************)
StalemateInit ==
    /\ now = 1
    /\ profiles = [p \in Profiles |->
                     CASE p = "profile1" -> PlayerProfileNew("authority1")
                       [] p = "profile2" -> PlayerProfileNew("authority2")
                       [] OTHER -> NoProfile]
    /\ \E wager \in Wagers, turn_length \in TurnLengths :
           /\ WagerFits(wager)
           /\ InitFunds >= 3 * Rent + 2 * wager
           /\ game = [GameNew("profile1", "One", SignerBump, wager, turn_length) EXCEPT
                         !.player2 = "profile2",
                         !.last_turn = 1]
           /\ lamports = [a \in LamportAccounts \cup Profiles |->
                            CASE a \in Funders -> InitFunds - 3 * Rent - 2 * wager
                              [] a \in {"profile1", "profile2", "game"} -> Rent
                              [] a = "game_signer" -> 2 * wager
                              [] OTHER -> 0]
    /\ game_account = "open"
    /\ releases = 0
    /\ moves_made = 0
    /\ engine = NoCall
    /\ SetupNew

\* A game in which Player One takes cells 1, 2, 3 and 6 of sub-board (0, 0)
\* and then cell 0, the corner that row 0 and column 0 share.
DoubleLine ==
    <<Mov(0, 1), Mov(1, 0), Mov(0, 2), Mov(2, 0), Mov(0, 3), Mov(3, 0),
      Mov(0, 6), Mov(6, 0), Mov(0, 0)>>

StalemateMoves(n) ==
    {script[n] : script \in {s \in {Stalemate, DoubleLine} : n <= Len(s)}} \cup OffGrid

StalemateMoveCalls ==
    \E authority \in Authorities, player_profile \in Profiles :
        /\ IsAuthority(authority, player_profile)
        /\ \E mov \in StalemateMoves(moves_made + 1) :
               /\ is_valid_move(game, mov)
               /\ \E opt \in Settlements :
                      MakeMove(authority, player_profile, mov, opt)

StalemateNext ==
    \/ Tick /\ UNCHANGED <<engine, harness>>
    \/ StalemateMoveCalls /\ UNCHANGED <<engine, harness>>
    \/ ForfeitGameCalls /\ UNCHANGED <<engine, harness>>

StalemateSpec == StalemateInit /\ [][StalemateNext]_vars

(***************************************************************************)
(* What the properties below quantify over: every input, tried or not.     *)
(***************************************************************************)
\* Coordinates as the instruction data can hold them: on the grid and off it.
AllMoves == [big_board : (0 .. 3) \X (0 .. 3), small_board : (0 .. 3) \X (0 .. 3)]

\* Some caller's MakeMove with this move returns Ok.  The accounts that no
\* move can do without are validated first, to cut the search: the
\* settlement accounts only add conditions.
Accepted(mov) ==
    \E authority \in Authorities, player_profile \in Profiles :
        /\ MakeMoveValid(authority, player_profile, mov, NoSettlement)
        /\ \E opt \in AllSettlements :
               MakeMoveOk(authority, player_profile, mov, opt)

\* Some caller's ForfeitGame passes validation.
SomeForfeitValid ==
    \E authority \in Authorities, player_profile \in Profiles,
       other_profile \in Profiles, game_signer \in GameSigners :
        ForfeitGameValid(authority, player_profile, other_profile, game_signer)

\* Some caller's JoinGame passes validation.
SomeJoinValid ==
    \E authority \in Authorities, player_profile \in Profiles,
       game_signer \in GameSigners, wager_funder \in Funders :
        JoinGameValid(authority, player_profile, game_signer, wager_funder)

\* The top-level board is Solved by a winning move.
Won == game_open /\ game.board.tag = "Solved"

\* The game was closed by a forfeit.
Forfeited == game_account = "closed"

Terminal == Won \/ Forfeited

\* The steps of the instructions, as the state shows them.
MoveStep == moves_made' = moves_made + 1

WinStep == MoveStep /\ game'.board.tag = "Solved"

ForfeitStep == game_open /\ game_account' = "closed"

\* The profile that is to move, and the one that is not.
NextKey == PlayerKey(game, game.next_play)

WaitingKey == PlayerKey(game, OtherPlayer(game.next_play))

Pot == 2 * game.wager

(***************************************************************************)
(* C1. No double spend: in a Terminal game (won, or closed by a forfeit)   *)
(* every MakeMove, ForfeitGame and JoinGame fails, the game stays Terminal,*)
(* no lamport leaves the escrow any more, and over the life of a game the  *)
(* escrow is released at most once.                                        *)
(***************************************************************************)
NoDoubleSpend ==
    /\ [](Terminal => /\ \A mov \in AllMoves : ~Accepted(mov)
                      /\ ~SomeForfeitValid
                      /\ ~SomeJoinValid)
    /\ [](releases <= 1)
    /\ [][Terminal => /\ Terminal'
                      /\ lamports'["game_signer"] >= lamports["game_signer"]]_vars
    /\ [][lamports'["game_signer"] < lamports["game_signer"] =>
              ~Terminal /\ Terminal']_vars

\* A won game whose escrow was paid out, at a time when the turn has run out.
NoDoubleSpendWitness ==
    /\ Won
    /\ releases = 1
    /\ TimedOut(game, now)
    /\ game.wager > 0

(***************************************************************************)
(* C2. The move that solves the top-level board settles in the same step:  *)
(* the board is Solved(next_play), the escrow pays exactly 2 * wager to one*)
(* recipient, the mover's profile gets a win and 2 * wager won, the        *)
(* opponent's profile a loss and 2 * wager lost.                           *)
(***************************************************************************)
WinSettles ==
    [][WinStep =>
        LET mover == NextKey
            opponent == WaitingKey
        IN  /\ game'.board = Solved(game.next_play)
            /\ \E funds_to \in Recipients :
                   lamports' = [lamports EXCEPT !["game_signer"] = @ - Pot,
                                                ![funds_to] = @ + Pot]
            /\ profiles'[mover].wins = profiles[mover].wins + 1
            /\ profiles'[mover].lamports_won = profiles[mover].lamports_won + Pot
            /\ profiles'[opponent].losses = profiles[opponent].losses + 1
            /\ profiles'[opponent].lamports_lost = profiles[opponent].lamports_lost + Pot]_vars

\* Player Two has won a game with wager 2 and receiver2 holds the pot.
WinSettlesWitness ==
    /\ Won
    /\ game.board = Solved("Two")
    /\ game.wager = 2
    /\ lamports["receiver2"] = 4
    /\ lamports["game_signer"] = 0

(***************************************************************************)
(* C3. A successful ForfeitGame transfers the pot, exactly 2 * wager, from *)
(* the escrow to the funds recipient, and the Game account is closed with  *)
(* its balance drained to the same recipient.                              *)
(***************************************************************************)
ForfeitPaysPot ==
    [][ForfeitStep =>
        /\ lamports["game_signer"] = Pot
        /\ \E funds_to \in Recipients :
               lamports' = [lamports EXCEPT !["game_signer"] = 0,
                                            !["game"] = 0,
                                            ![funds_to] = @ + Pot + lamports["game"]]]_vars

(***************************************************************************)
(* C4. Before any successful JoinGame, every ForfeitGame fails, whatever   *)
(* the creator position, the locked profile, the caller and the clock.     *)
(***************************************************************************)
NoForfeitBeforeJoin ==
    game_open /\ ~is_started(game) => ~SomeForfeitValid

(***************************************************************************)
(* C5. A game with turn_length = 0 has no timeout: no ForfeitGame on it    *)
(* succeeds.  Stated for started games, where nothing but the timeout      *)
(* stands between a waiting player and a forfeit.                          *)
(***************************************************************************)
NoTimeoutWhenZero ==
    game_open /\ is_started(game) /\ game.turn_length = 0 => ~SomeForfeitValid

(***************************************************************************)
(* C6. ForfeitGame succeeds only for the profile stored for the player who *)
(* is not next_play, with the profile stored for next_play as the other    *)
(* profile: the next_play player and a stranger cannot forfeit, and the    *)
(* forfeit credits the win to the waiting player and the loss to the       *)
(* player to move.                                                         *)
(***************************************************************************)
OnlyWaitingPlayerForfeits ==
    /\ [](\A authority \in Authorities, player_profile \in Profiles,
             other_profile \in Profiles, game_signer \in GameSigners :
              player_profile # WaitingKey \/ other_profile # NextKey =>
                  ~ForfeitGameValid(authority, player_profile, other_profile, game_signer))
    /\ [][ForfeitStep =>
            /\ profiles'[WaitingKey].wins = profiles[WaitingKey].wins + 1
            /\ profiles'[NextKey].losses = profiles[NextKey].losses + 1
            /\ \A p \in Profiles \ {WaitingKey, NextKey} : profiles'[p] = profiles[p]]_vars

\* Player Two, to move after the first move, let the turn run out; Player
\* One claimed the forfeit while a third profile looked on.
OnlyWaitingPlayerForfeitsWitness ==
    /\ Forfeited
    /\ moves_made = 1
    /\ \E p \in Profiles : profiles[p].wins = 1
    /\ \E p \in Profiles : profiles[p].losses = 1
    /\ \E p \in Profiles : ProfileExists(p) /\ profiles[p].wins = 0 /\ profiles[p].losses = 0

(***************************************************************************)
(* C7. In a started game with turn_length > 0 every ForfeitGame fails      *)
(* while the clock is not past last_turn + turn_length, and every move     *)
(* that does not win restarts the deadline: it sets last_turn to the time  *)
(* of the move.                                                            *)
(***************************************************************************)
NoForfeitBeforeDeadline ==
    /\ [](game_open /\ is_started(game) /\ game.turn_length > 0
              /\ now <= game.last_turn + game.turn_length
            => ~SomeForfeitValid)
    /\ [][MoveStep /\ ~WinStep => game'.last_turn = now]_vars

\* The clock stands exactly at the deadline that the last move restarted.
NoForfeitBeforeDeadlineWitness ==
    /\ game_open
    /\ ~Won
    /\ moves_made >= 1
    /\ game.turn_length > 0
    /\ game.last_turn > 1
    /\ now = game.last_turn + game.turn_length

(***************************************************************************)
(* C8. Forced sub-board: a move is accepted only if its big_board is the   *)
(* small_board of the move before, unless the sub-board there is Solved or *)
(* no move was made yet (last_move = [3,3]); in those two cases every      *)
(* Empty cell of every Unsolved sub-board may be played.  last_move is the *)
(* small_board of the move before.                                         *)
(***************************************************************************)
\* The sub-board that last_move points to is Solved.
LastMoveSolved ==
    /\ game.board.tag = "Unsolved"
    /\ game.last_move \in Coord
    /\ game.board.grid[game.last_move].tag = "Solved"

\* The cell that a move addresses is on the grid, in an Unsolved sub-board, and Empty.
CellEmpty(mov) ==
    /\ mov.big_board \in Coord
    /\ mov.small_board \in Coord
    /\ game.board.tag = "Unsolved"
    /\ game.board.grid[mov.big_board].tag = "Unsolved"
    /\ game.board.grid[mov.big_board].grid[mov.small_board] = "Empty"

ForcedSubBoard ==
    /\ [](\A mov \in AllMoves :
              Accepted(mov) =>
                  \/ game.last_move = NoLastMove
                  \/ LastMoveSolved
                  \/ mov.big_board = game.last_move)
    /\ [](game_open /\ is_started(game) /\ ProfileExists(NextKey)
              /\ (game.last_move = NoLastMove \/ LastMoveSolved)
            => \A mov \in AllMoves : CellEmpty(mov) => Accepted(mov))
    /\ [][MoveStep /\ ~WinStep =>
            \E mov \in AllMoves :
                /\ game'.last_move = mov.small_board
                /\ Accepted(mov)
                /\ game'.board = MovedBoard(game, mov).board]_vars

\* The last move sent the player to a Solved sub-board: a move elsewhere is accepted.
ForcedSubBoardWitness ==
    /\ game_open
    /\ LastMoveSolved
    /\ \E mov \in AllMoves : mov.big_board # game.last_move /\ Accepted(mov)

(***************************************************************************)
(* C9. A move is accepted only if the cell it addresses is on the grid,    *)
(* in an Unsolved sub-board and Empty; and no step overwrites a cell that  *)
(* is not Empty (a sub-board that becomes Solved gives up its cells).      *)
(***************************************************************************)
OnlyEmptyCells ==
    /\ [](\A mov \in AllMoves : Accepted(mov) => CellEmpty(mov))
    /\ [][game_open /\ game_open' /\ game.board.tag = "Unsolved"
              /\ game'.board.tag = "Unsolved" =>
            \A b \in Coord, c \in Coord :
                LET before == game.board.grid[b]
                    after == game'.board.grid[b]
                IN  before.tag = "Unsolved" /\ before.grid[c] # "Empty" =>
                        \/ after.tag = "Solved"
                        \/ after.grid[c] = before.grid[c]]_vars

\* A player is sent to a sub-board that holds marks and has Empty cells left.
OnlyEmptyCellsWitness ==
    /\ game_open
    /\ ~Won
    /\ game.last_move \in Coord
    /\ game.board.grid[game.last_move].tag = "Unsolved"
    /\ \E c \in Coord : game.board.grid[game.last_move].grid[c] # "Empty"
    /\ \E mov \in AllMoves : Accepted(mov)

(***************************************************************************)
(* C10. A successful move that does not win the game puts the mover's mark *)
(* into the addressed cell and nowhere else (the addressed sub-board is    *)
(* Solved for the mover instead when the mark completes a line in it),     *)
(* toggles next_play, sets last_turn to the current time and last_move to  *)
(* the move's small_board, and changes no other field of the Game.         *)
(***************************************************************************)
MoveEffect ==
    [][MoveStep /\ ~WinStep =>
        \E mov \in AllMoves :
            LET before == game.board.grid[mov.big_board]
                after == game'.board.grid[mov.big_board]
                marked == [before.grid EXCEPT ![mov.small_board] = SpaceFrom(game.next_play)]
            IN  /\ CellEmpty(mov)
                /\ \A b \in Coord \ {mov.big_board} :
                       game'.board.grid[b] = game.board.grid[b]
                /\ \/ after = Unsolved(marked)
                   \/ /\ after = Solved(game.next_play)
                      /\ is_winner([i \in Coord |-> SpaceWinner(marked[i])], game.next_play)
                /\ game'.next_play = OtherPlayer(game.next_play)
                /\ game'.last_turn = now
                /\ game'.last_move = mov.small_board
                /\ game' = [game EXCEPT !.board = game'.board,
                                        !.next_play = game'.next_play,
                                        !.last_turn = game'.last_turn,
                                        !.last_move = game'.last_move]]_vars

\* Player Two has just solved a sub-board with a move made after the game was joined.
MoveEffectWitness ==
    /\ game_open
    /\ ~Won
    /\ game.next_play = "One"
    /\ game.last_move \in Coord
    /\ game.last_turn = now
    /\ \E b \in Coord : game.board.grid[b] = Solved("Two")

(***************************************************************************)
(* C11. MakeMove succeeds only on a started game and only for the profile  *)
(* stored for next_play: whatever the caller, the move and the settlement  *)
(* accounts, no other MakeMove returns Ok, every step that makes a move    *)
(* starts from a started game, and no step changes the board, next_play or *)
(* last_move of a game that was not joined.                                *)
(***************************************************************************)
OnlyTurnOwnerMoves ==
    /\ [](\A authority \in Authorities, player_profile \in Profiles, mov \in AllMoves :
             (/\ MakeMoveValid(authority, player_profile, mov, NoSettlement)
              /\ \E opt \in AllSettlements :
                     MakeMoveOk(authority, player_profile, mov, opt))
             => /\ game_open
                /\ is_started(game)
                /\ player_profile = NextKey
                /\ profiles[player_profile].authority = authority)
    /\ [][MoveStep => game_open /\ is_started(game)]_vars
    /\ [][game_open /\ ~is_started(game) =>
              /\ game'.board = game.board
              /\ game'.next_play = game.next_play
              /\ game'.last_move = game.last_move
              /\ moves_made' = moves_made]_vars

\* Player Two is to move in a started game, and the profile of Player One,
\* who has moved, could sign a move as well.
OnlyTurnOwnerMovesWitness ==
    /\ game_open
    /\ is_started(game)
    /\ moves_made >= 1
    /\ game.next_play = "Two"
    /\ ProfileExists(WaitingKey)
    /\ \E mov \in AllMoves : Accepted(mov)

(***************************************************************************)
(* C12. is_winner(grid, candidate) is true if and only if one of the 3     *)
(* rows, 3 columns or 2 diagonals of the grid consists only of cells whose *)
(* current_winner() is the candidate, for every grid of spaces and every   *)
(* grid of sub-boards.                                                     *)
(***************************************************************************)
\* The 8 lines of a 3x3 grid.
Lines ==
    {{<<r, c>> : c \in 0 .. 2} : r \in 0 .. 2}
    \cup {{<<r, c>> : r \in 0 .. 2} : c \in 0 .. 2}
    \cup {{<<0, 0>>, <<1, 1>>, <<2, 2>>}, {<<0, 2>>, <<1, 1>>, <<2, 0>>}}

\* The lines of the engine's grid whose cells all report this occupant.
LinesOf(occupant) ==
    {line \in Lines :
        \A c \in line : Winners(engine.level, engine.board.grid)[c] = Some(occupant)}

WinnerIffLine ==
    engine.call.op = "is_winner" =>
        (engine.call.result <=> LinesOf(engine.call.last_turn) # {})

\* is_winner returned true for Player Two on a grid of sub-boards where
\* Two holds the second diagonal and no other line.
WinnerIffLineWitness ==
    /\ engine.call.op = "is_winner"
    /\ engine.level = "top"
    /\ engine.call.last_turn = "Two"
    /\ engine.call.result
    /\ LinesOf("Two") = {{<<0, 2>>, <<1, 1>>, <<2, 0>>}}

AllIndexes == (0 .. 3) \X (0 .. 3)

\* make_move returns Err and the board is as it was.
Rejected(result, board) == ~result.ok /\ result.board = board

SolvedRejectsMoves ==
    /\ [](engine.call.op = "none" /\ engine.board.tag = "Solved" =>
             \A player \in Player, index \in AllIndexes :
                 /\ Rejected(SubBoardMakeMove(engine.board, player, index), engine.board)
                 /\ \A sub_index \in AllIndexes :
                        Rejected(BoardMakeMove(engine.board, player, index, sub_index),
                                 engine.board))
    /\ [](engine.call.op = "none" /\ engine.level = "top" /\ engine.board.tag = "Unsolved" =>
             \A index \in Coord :
                 engine.board.grid[index].tag = "Solved" =>
                     \A player \in Player, sub_index \in AllIndexes :
                         Rejected(BoardMakeMove(engine.board, player, index, sub_index),
                                  engine.board))
    /\ [][engine.board.tag = "Solved" /\ engine'.call.op = "make_move" =>
              ~engine'.call.ok /\ engine'.board = engine.board]_vars

\* make_move was called on a Solved sub-board, returned Err and left it Solved.
SolvedRejectsMovesWitness ==
    /\ engine.level = "sub"
    /\ engine.call.op = "make_move"
    /\ ~engine.call.ok
    /\ engine.board = Solved("Two")

(***************************************************************************)
(* C15. As long as the Game record exists, no step turns a Solved          *)
(* sub-board into an Unsolved one or into one Solved by the other player,  *)
(* and no step changes a Solved main board.  (When the main board becomes  *)
(* Solved its sub-boards are no longer stored.)                            *)
(***************************************************************************)
SolvedStaysSolved ==
    [][game_open /\ game_open' =>
        /\ game.board.tag = "Solved" => game'.board = game.board
        /\ game.board.tag = "Unsolved" /\ game'.board.tag = "Unsolved" =>
               \A b \in Coord :
                   game.board.grid[b].tag = "Solved" =>
                       game'.board.grid[b] = game.board.grid[b]]_vars

\* Both players hold Solved sub-boards and the game has gone on after them.
SolvedStaysSolvedWitness ==
    /\ game_open
    /\ ~Won
    /\ moves_made >= 12
    /\ \E b \in Coord : game.board.grid[b] = Solved("One")
    /\ \E b \in Coord : game.board.grid[b] = Solved("Two")

(***************************************************************************)
(* C16. A MakeMove that wins the game fails when game_signer,              *)
(* other_profile, funds_to or system_program is left out, whatever the     *)
(* other accounts are; a failed instruction is no step, so the only step   *)
(* that solves the main board is one that pays the escrow to a recipient   *)
(* and counts the loss in the opponent's profile.                          *)
(***************************************************************************)
WinNeedsSettlement ==
    /\ [](\A authority \in Authorities, player_profile \in Profiles, mov \in AllMoves :
             (/\ MakeMoveValid(authority, player_profile, mov, NoSettlement)
              /\ IsWinningMove(game, mov))
             => \A opt \in AllSettlements :
                    (\/ opt.game_signer = NoAccount
                     \/ opt.other_profile = NoAccount
                     \/ opt.funds_to = NoAccount
                     \/ ~opt.system_program)
                    => ~MakeMoveOk(authority, player_profile, mov, opt))
    /\ [][game'.board.tag = "Solved" /\ game.board.tag = "Unsolved" =>
              /\ lamports'["game_signer"] = 0
              /\ \E funds_to \in Recipients :
                     lamports'[funds_to] = lamports[funds_to] + lamports["game_signer"]
              /\ profiles'[WaitingKey].losses = profiles[WaitingKey].losses + 1
              /\ profiles'[NextKey].wins = profiles[NextKey].wins + 1]_vars

\* The player to move can win the game with the next move.
WinNeedsSettlementWitness ==
    /\ game_open
    /\ ~Won
    /\ lamports["game_signer"] = Pot
    /\ \E mov \in AllMoves : IsWinningMove(game, mov) /\ Accepted(mov)

(***************************************************************************)
(* C17. The winning MakeMove destroys the Game record as a forfeit does:   *)
(* after it the Game account is closed, its balance is drained to the      *)
(* funds recipient and the record is zeroed.                               *)
(***************************************************************************)
WinClosesGame ==
    [][WinStep =>
        /\ game_account' = "closed"
        /\ game' = NoGame
        /\ lamports'["game"] = 0
        /\ \E funds_to \in Recipients :
               lamports'[funds_to] = lamports[funds_to] + lamports["game_signer"] + lamports["game"]]_vars

(***************************************************************************)
(* C18. The forfeit of a started game counts the pot: the claimant's       *)
(* profile gets wins + 1 and lamports_won + 2 * wager, the defaulting      *)
(* player's profile gets losses + 1 and lamports_lost + 2 * wager, and no  *)
(* other counter of the two profiles changes.                              *)
(***************************************************************************)
ForfeitCountsPot ==
    [][ForfeitStep /\ is_started(game) =>
        LET claimant == WaitingKey
            defaulter == NextKey
        IN  /\ profiles'[claimant] =
                   [profiles[claimant] EXCEPT !.wins = saturating_add(@, 1),
                                              !.lamports_won = saturating_add(@, Pot),
                                              !.elo = profiles'[claimant].elo]
            /\ profiles'[defaulter] =
                   [profiles[defaulter] EXCEPT !.losses = saturating_add(@, 1),
                                               !.lamports_lost = saturating_add(@, Pot),
                                               !.elo = profiles'[defaulter].elo]]_vars

(***************************************************************************)
(* C19. The counter increments of a settlement saturate: a win adds 1 to   *)
(* wins and losses and the escrow balance to lamports_won and              *)
(* lamports_lost, a forfeit adds 1 and the wager, and each counter ends at *)
(* the sum or, when the sum exceeds u64::MAX, at u64::MAX.  No counter     *)
(* ever gets smaller, and a winning move is accepted whatever the counters *)
(* of the two profiles are.                                                *)
(***************************************************************************)
\* The sum, cut at the end of the u64 range.
Clamped(sum) == IF sum > U64Max THEN U64Max ELSE sum

Counters == {"wins", "losses", "draws", "lamports_won", "lamports_lost"}

CountersSaturate ==
    /\ [][WinStep =>
            /\ profiles'[NextKey].wins = Clamped(profiles[NextKey].wins + 1)
            /\ profiles'[NextKey].lamports_won =
                   Clamped(profiles[NextKey].lamports_won + lamports["game_signer"])
            /\ profiles'[WaitingKey].losses = Clamped(profiles[WaitingKey].losses + 1)
            /\ profiles'[WaitingKey].lamports_lost =
                   Clamped(profiles[WaitingKey].lamports_lost + lamports["game_signer"])]_vars
    /\ [][ForfeitStep =>
            /\ profiles'[WaitingKey].wins = Clamped(profiles[WaitingKey].wins + 1)
            /\ profiles'[WaitingKey].lamports_won =
                   Clamped(profiles[WaitingKey].lamports_won + game.wager)
            /\ profiles'[NextKey].losses = Clamped(profiles[NextKey].losses + 1)
            /\ profiles'[NextKey].lamports_lost =
                   Clamped(profiles[NextKey].lamports_lost + game.wager)]_vars
    /\ [][\A p \in Profiles, c \in Counters :
              ProfileExists(p) =>
                  profiles'[p][c] >= profiles[p][c] /\ profiles'[p][c] <= U64Max]_vars
    /\ [](game_open /\ is_started(game) =>
             \A mov \in AllMoves :
                 is_valid_move(game, mov) /\ IsWinningMove(game, mov) => Accepted(mov))

\* Player One has won with counters that were one short of u64::MAX: the
\* win filled wins, the pot would have taken lamports_won past the maximum.
CountersSaturateWitness ==
    /\ Won
    /\ game.board = Solved("One")
    /\ profiles["profile1"].losses = U64Max - 1
    /\ profiles["profile1"].wins = U64Max
    /\ profiles["profile1"].lamports_won = U64Max
    /\ profiles["profile2"].lamports_lost = U64Max
    /\ profiles["profile2"].wins = U64Max

(***************************************************************************)
(* C20. A successful ForfeitGame rates the game at k = 50 with the         *)
(* claimant as the winner: with p the win probability of each player, the  *)
(* claimant's stored elo is the integer part of elo + 50 * (1 - p) and the *)
(* defaulting player's is the integer part of elo - 50 * p (ratings in     *)
(* millionths here), so the first never decreases and the second never     *)
(* increases.                                                              *)
(***************************************************************************)
\* `stored` is the rating `micro` (in millionths) with its fraction cut off.
Truncates(stored, micro) ==
    stored * 1000000 <= micro /\ micro < (stored + 1) * 1000000

ForfeitRatesAtFifty ==
    [][ForfeitStep =>
        LET claimant == profiles[WaitingKey].elo
            defaulter == profiles[NextKey].elo
            claimant_micro ==
                claimant * 1000000 + 50 * (1000000 - win_probability(claimant, defaulter))
            defaulter_micro ==
                defaulter * 1000000 - 50 * win_probability(defaulter, claimant)
        IN  /\ Truncates(profiles'[WaitingKey].elo, claimant_micro)
            /\ Truncates(profiles'[NextKey].elo, defaulter_micro)
            /\ profiles'[WaitingKey].elo >= claimant
            /\ profiles'[NextKey].elo <= defaulter]_vars

\* profile2, rated 1225, has forfeited profile1, rated 1175: 1246.43 is
\* stored as 1246 and 1153.57 as 1153.
ForfeitRatesAtFiftyWitness ==
    /\ Forfeited
    /\ profiles["profile2"].elo = INITIAL_ELO + 46
    /\ profiles["profile1"].elo = INITIAL_ELO - 47
    /\ profiles["profile2"].wins = 2

(***************************************************************************)
(* C21. CreateGame with a wager whose double exceeds u64::MAX is rejected, *)
(* whatever the other arguments: every Game record that comes to exist     *)
(* holds a wager whose double fits, and its escrow holds that wager.  The  *)
(* check rejects nothing else: for every wager whose double fits, a        *)
(* CreateGame of an existing profile with a funded payer is accepted.      *)
(***************************************************************************)
\* Every u64 as the wager of a CreateGame.
AllCreateGameDatas ==
    [creator_player : Player, signer_bump : {SignerBump}, wager : 0 .. U64Max,
     turn_length : TurnLengths]

WagerOverflowRejected ==
    /\ [](\A data \in AllCreateGameDatas :
             data.wager * 2 > U64Max =>
                 \A authority \in Authorities, player_profile \in Profiles,
                    game_signer \in GameSigners, wager_funder \in Funders,
                    funder \in Funders, other_player_profile \in Profiles \cup {NoAccount} :
                     ~CreateGameValid(authority, player_profile, data, game_signer,
                                      wager_funder, funder, other_player_profile))
    /\ [](\A data \in AllCreateGameDatas :
             (/\ data.wager * 2 <= U64Max
              /\ game_account = "uninit"
              /\ ProfileExists("profile1")
              /\ lamports["funder"] >= Rent + data.wager)
             => CreateGameValid("authority1", "profile1", data, "game_signer",
                                "funder", "funder", NoAccount))
    /\ [][game_account = "uninit" /\ game_account' = "open" =>
              /\ game'.wager * 2 <= U64Max
              /\ lamports'["game_signer"] = lamports["game_signer"] + game'.wager]_vars
    /\ [](game_account = "uninit" => game = NoGame /\ lamports["game_signer"] = 0)

\* No game exists yet, and the creator's payer could fund the smallest
\* wager whose double overflows.
WagerOverflowRejectedWitness ==
    /\ game_account = "uninit"
    /\ ProfileExists("profile1")
    /\ lamports["funder"] >= Rent + (U64Max \div 2) + 1

(***************************************************************************)
(* C22. A successful CreateGame without a locked opponent leaves the Game  *)
(* record of Game::new: version 0, the creator's profile in the slot of    *)
(* creator_player and the zero key in the other, next_play = One,          *)
(* last_turn = 0, last_move = [3, 3], every cell of every sub-board Empty, *)
(* and the signer bump, wager and turn length of the instruction data;     *)
(* and exactly the wager has moved from the payer into the escrow (the     *)
(* payer also pays the rent of the Game account).                          *)
(***************************************************************************)
\* The step of a successful CreateGame.
CreateStep == game_account = "uninit" /\ game_account' = "open"

CreateGameResult ==
    [][CreateStep /\ ZeroKey \in {game'.player1, game'.player2} =>
        \E data \in CreateGameDatas, creator \in Profiles :
            /\ ProfileExists(creator)
            /\ game' = [version |-> 0,
                        player1 |-> IF data.creator_player = "One" THEN creator ELSE ZeroKey,
                        player2 |-> IF data.creator_player = "Two" THEN creator ELSE ZeroKey,
                        creator |-> data.creator_player,
                        next_play |-> "One",
                        signer_bump |-> data.signer_bump,
                        wager |-> data.wager,
                        turn_length |-> data.turn_length,
                        last_turn |-> 0,
                        last_move |-> <<3, 3>>,
                        board |-> Unsolved([b \in Coord |->
                                     Unsolved([c \in Coord |-> "Empty"])])]
            /\ ~is_started(game')
            /\ lamports' = [lamports EXCEPT !["funder"] = @ - data.wager - Rent,
                                            !["game_signer"] = @ + data.wager,
                                            !["game"] = @ + Rent]]_vars

\* A game created by Player Two with nobody locked in: Player One's slot is
\* free, Player One is to play, and the escrow holds one wager of 2.
CreateGameResultWitness ==
    /\ game_open
    /\ ~is_started(game)
    /\ game.creator = "Two"
    /\ game.player1 = ZeroKey
    /\ game.player2 = "profile1"
    /\ game.wager = 2
    /\ lamports["game_signer"] = 2

(***************************************************************************)
(* C23. A successful JoinGame writes the joining profile into the slot     *)
(* opposite the creator's, sets last_turn to the current time, which is    *)
(* positive, so that the game is started, moves exactly the wager from the *)
(* joiner's payer into the escrow, and changes no other field of the Game: *)
(* board, next_play, last_move and the creator's slot are as before.       *)
(***************************************************************************)
\* The step of a successful JoinGame.
JoinStep == game_open /\ game_open' /\ ~is_started(game) /\ is_started(game')

JoinGameResult ==
    [][JoinStep =>
        \E joiner \in Profiles :
            /\ ProfileExists(joiner)
            /\ game' = [game EXCEPT !.player1 = IF game.creator = "Two" THEN joiner ELSE @,
                                    !.player2 = IF game.creator = "One" THEN joiner ELSE @,
                                    !.last_turn = now]
            /\ PlayerKey(game', game.creator) = PlayerKey(game, game.creator)
            /\ PlayerKey(game', OtherPlayer(game.creator)) = joiner
            /\ game'.last_turn > 0
            /\ lamports' = [lamports EXCEPT !["funder"] = @ - game.wager,
                                            !["game_signer"] = @ + game.wager]]_vars

\* profile2 has joined, as Player One, the game that profile1 created as
\* Player Two; no move was made and the escrow holds both wagers.
JoinGameResultWitness ==
    /\ game_open
    /\ is_started(game)
    /\ moves_made = 0
    /\ game.creator = "Two"
    /\ game.player1 = "profile2"
    /\ game.player2 = "profile1"
    /\ game.last_turn = now
    /\ lamports["game_signer"] = Pot

(***************************************************************************)
(* C24. JoinGame succeeds at most once per game: it passes validation only *)
(* while the game is not started, the step of a join leaves the game       *)
(* started (last_turn > 0), a started game stays started as long as its    *)
(* record exists, and nothing is paid into the escrow of a started game.   *)
(***************************************************************************)
JoinsOnce ==
    /\ [](SomeJoinValid => game_open /\ ~is_started(game))
    /\ [](is_started(game) <=> game.last_turn > 0)
    /\ [][JoinStep => moves_made = 0 /\ game'.last_turn > 0]_vars
    /\ [][game_open /\ is_started(game) =>
              /\ game_open' => is_started(game')
              /\ lamports'["game_signer"] <= lamports["game_signer"]
              /\ ~JoinStep]_vars

\* A started game, and a third profile with a funded payer that would join.
JoinsOnceWitness ==
    /\ game_open
    /\ is_started(game)
    /\ ~Won
    /\ ProfileExists("profile3")
    /\ "profile3" \notin {game.player1, game.player2}
    /\ lamports["funder"] >= game.wager

(***************************************************************************)
(* C25. In a game created with a locked opponent, a JoinGame by any        *)
(* profile but the locked one fails validation, whoever signs and pays, so *)
(* slots, last_turn and escrow stay as they are; a JoinGame by the locked  *)
(* profile with a funded payer is accepted and the join leaves the locked  *)
(* profile in its slot.                                                    *)
(***************************************************************************)
\* The key in the slot opposite the creator's: the locked profile, if any.
LockedKey == PlayerKey(game, OtherPlayer(game.creator))

\* An unjoined game that was created with a locked opponent.
LockedOpen == game_open /\ ~is_started(game) /\ LockedKey # ZeroKey

LockedJoin ==
    /\ [](LockedOpen =>
             \A authority \in Authorities, player_profile \in Profiles,
                game_signer \in GameSigners, wager_funder \in Funders :
                 JoinGameValid(authority, player_profile, game_signer, wager_funder)
                 => player_profile = LockedKey)
    /\ [](LockedOpen /\ lamports["funder"] >= game.wager =>
             JoinGameValid(profiles[LockedKey].authority, LockedKey, "game_signer", "funder"))
    /\ [][LockedOpen /\ JoinStep =>
              /\ game'.player1 = game.player1
              /\ game'.player2 = game.player2]_vars

\* An unjoined game locked to profile2, while profile3 exists and its payer
\* holds the wager.
LockedJoinWitness ==
    /\ LockedOpen
    /\ LockedKey = "profile2"
    /\ ProfileExists("profile3")
    /\ lamports["funder"] >= game.wager

(***************************************************************************)
(* C26. Every operation is atomic.  An operation that returns an error is  *)
(* reverted, so it is no step; what can be observed is that there is no    *)
(* partial commit: every step that changes the Game record, a profile or a *)
(* balance is the whole effect of one operation (the record, the profiles  *)
(* and the balances change together as that operation changes them), and   *)
(* no balance is ever overdrawn.                                           *)
(***************************************************************************)
\* The balances after `amount` has gone from one account to another.
Moved(from, to, amount) == [lamports EXCEPT ![from] = @ - amount, ![to] = @ + amount]

WholeCreateProfile ==
    /\ \E p \in Profiles :
           /\ profiles[p] = NoProfile
           /\ \E authority \in Authorities :
                  profiles' = [profiles EXCEPT ![p] = PlayerProfileNew(authority)]
           /\ lamports' = Moved("funder", p, Rent)
    /\ UNCHANGED <<game, game_account>>

WholeCreateGame ==
    /\ CreateStep
    /\ lamports' = [lamports EXCEPT !["funder"] = @ - Rent - game'.wager,
                                    !["game"] = @ + Rent,
                                    !["game_signer"] = @ + game'.wager]
    /\ UNCHANGED profiles

WholeJoinGame ==
    /\ JoinStep
    /\ game'.player1 # ZeroKey /\ game'.player2 # ZeroKey
    /\ lamports' = Moved("funder", "game_signer", game.wager)
    /\ UNCHANGED <<profiles, game_account>>

WholeMove ==
    /\ MoveStep /\ ~WinStep
    /\ game'.board # game.board
    /\ game'.next_play # game.next_play
    /\ UNCHANGED <<profiles, lamports, game_account>>

WholeWin ==
    /\ WinStep
    /\ game'.player1 = ZeroKey /\ game'.player2 = ZeroKey
    /\ profiles'[NextKey].wins = Clamped(profiles[NextKey].wins + 1)
    /\ profiles'[WaitingKey].losses = Clamped(profiles[WaitingKey].losses + 1)
    /\ \E funds_to \in Recipients :
           lamports' = Moved("game_signer", funds_to, lamports["game_signer"])
    /\ UNCHANGED game_account

WholeForfeit ==
    /\ ForfeitStep
    /\ game' = NoGame
    /\ profiles'[WaitingKey].wins = Clamped(profiles[WaitingKey].wins + 1)
    /\ profiles'[NextKey].losses = Clamped(profiles[NextKey].losses + 1)
    /\ \E funds_to \in Recipients :
           lamports' = [lamports EXCEPT
                           !["game_signer"] = 0,
                           !["game"] = 0,
                           ![funds_to] = @ + lamports["game_signer"] + lamports["game"]]

NoPartialCommit ==
    /\ [][<<game, game_account, profiles, lamports>>' # <<game, game_account, profiles, lamports>>
            => \/ WholeCreateProfile
               \/ WholeCreateGame
               \/ WholeJoinGame
               \/ WholeMove
               \/ WholeWin
               \/ WholeForfeit]_vars
    /\ [](\A a \in DOMAIN lamports : lamports[a] >= 0)

\* An unjoined game whose wager the payer can no longer afford: a JoinGame
\* passes validation, writes the joiner and the clock, and fails in the transfer.
NoPartialCommitWitness ==
    /\ game_open
    /\ ~is_started(game)
    /\ lamports["funder"] < game.wager
    /\ \E authority \in Authorities, player_profile \in Profiles :
           /\ IsAuthority(authority, player_profile)
           /\ is_valid_other_player(game, player_profile)
           /\ player_profile # PlayerKey(game, game.creator)

(***************************************************************************)
(* C27. The escrow of a game holds exactly the wager while the game is     *)
(* Unjoined (created, not started), exactly 2 * wager while it is Active   *)
(* (started, main board Unsolved), and 0 once it is Terminal (won, or      *)
(* closed by a forfeit); before any game exists it holds nothing.  Only    *)
(* the program pays into the escrow.                                       *)
(***************************************************************************)
Unjoined == game_open /\ ~is_started(game)

Active == game_open /\ is_started(game) /\ game.board.tag = "Unsolved"

\* The wager of the game that was closed, which the closed record no
\* longer tells, is not needed: a Terminal escrow is empty.
EscrowBalance ==
    /\ game_account = "uninit" => lamports["game_signer"] = 0
    /\ Unjoined => lamports["game_signer"] = game.wager
    /\ Active => lamports["game_signer"] = 2 * game.wager
    /\ Terminal => lamports["game_signer"] = 0
    /\ game_account = "uninit" \/ Unjoined \/ Active \/ Terminal

\* An Active game of wager 2 after some moves: the escrow holds 4.
EscrowBalanceWitness ==
    /\ Active
    /\ moves_made >= 3
    /\ game.wager = 2
    /\ lamports["game_signer"] = 4

(***************************************************************************)
(* C28. A PlayerProfile is mutated only by settlement: CreateGame,         *)
(* JoinGame and every MakeMove that does not win leave every field of      *)
(* every profile unchanged (a failed operation is no step at all), a       *)
(* profile changes only when it is created, on a winning move or on a      *)
(* forfeit, and no step deletes a profile or changes its authority.        *)
(***************************************************************************)
ProfileCreated ==
    \E p \in Profiles, authority \in Authorities :
        /\ profiles[p] = NoProfile
        /\ profiles' = [profiles EXCEPT ![p] = PlayerProfileNew(authority)]

ProfilesKept ==
    \A p \in Profiles :
        profiles[p] # NoProfile =>
            /\ profiles'[p] # NoProfile
            /\ profiles'[p].authority = profiles[p].authority

ProfileFrame ==
    [][/\ (CreateStep \/ JoinStep \/ (MoveStep /\ ~WinStep)) => profiles' = profiles
       /\ profiles' # profiles => (ProfileCreated \/ WinStep \/ ForfeitStep)
       /\ ProfilesKept]_vars

\* A game was created, joined and played for some moves, and both players'
\* profiles are still as they were created.
ProfileFrameWitness ==
    /\ Active
    /\ moves_made >= 2
    /\ \A p \in {game.player1, game.player2} :
           /\ p \in Profiles
           /\ profiles[p] # NoProfile
           /\ profiles[p] = PlayerProfileNew(profiles[p].authority)

(***************************************************************************)
(* The account data of a Game: the Borsh encoding its derives produce.     *)
(* Fields are written in declaration order; u8 is one byte, u64 and        *)
(* UnixTimestamp (i64) are eight bytes little-endian, a Pubkey is its 32   *)
(* bytes, an enum is the one-byte index of its variant followed by the     *)
(* variant's fields, and a fixed-size array is its elements in order       *)
(* without a length.  CodecSpec serializes and deserializes Game records   *)
(* drawn from a bounded set.                                               *)
(***************************************************************************)
ByteMax == 255

Take(data, n) == SubSeq(data, 1, n)

Drop(data, n) == SubSeq(data, n + 1, Len(data))

RECURSIVE Concat(_)
Concat(seqs) == IF seqs = <<>> THEN <<>> ELSE Head(seqs) \o Concat(Tail(seqs))

RECURSIVE LeBytes(_, _)
LeBytes(v, n) ==
    IF n = 0 THEN <<>> ELSE <<v % (ByteMax + 1)>> \o LeBytes(v \div (ByteMax + 1), n - 1)

RECURSIVE FromLe(_)
FromLe(bytes) ==
    IF bytes = <<>> THEN 0 ELSE Head(bytes) + (ByteMax + 1) * FromLe(Tail(bytes))

Complement(bytes) == [i \in DOMAIN bytes |-> ByteMax - bytes[i]]

SerializeU8(v) == <<v>>

DeserializeU8(data) == [value |-> Head(data), rest |-> Tail(data)]

SerializeU64(v) == LeBytes(v, 8)

DeserializeU64(data) == [value |-> FromLe(Take(data, 8)), rest |-> Drop(data, 8)]

\* i64 in two's complement.
SerializeI64(v) == IF v >= 0 THEN LeBytes(v, 8) ELSE Complement(LeBytes(-v - 1, 8))

DeserializeI64(data) ==
    LET bytes == Take(data, 8)
    IN  [value |-> IF bytes[8] > ByteMax \div 2
                   THEN -(FromLe(Complement(bytes)) + 1)
                   ELSE FromLe(bytes),
         rest |-> Drop(data, 8)]

\* The 32 bytes of each key of the model; the zero key is [0; 32].
Pubkeys == Profiles \cup {ZeroKey}

KeyBytes(key) ==
    [i \in 1 .. 32 |-> CASE key = "profile1" -> 1
                         [] key = "profile2" -> 2
                         [] key = "profile3" -> 3
                         [] OTHER -> 0]

SerializePubkey(key) == KeyBytes(key)

DeserializePubkey(data) ==
    [value |-> CHOOSE key \in Pubkeys : KeyBytes(key) = Take(data, 32),
     rest |-> Drop(data, 32)]

\* Player with every variant written as index 0.
PlayerTag_AllOne(player) == 0

PlayerTag(player) == IF player = "One" THEN 0 ELSE 1

SerializePlayer(player) == <<PlayerTag(player)>>

DeserializePlayer(data) ==
    [value |-> IF \E player \in Player : PlayerTag(player) = Head(data)
               THEN CHOOSE player \in Player : PlayerTag(player) = Head(data)
               ELSE "InvalidData",
     rest |-> Tail(data)]

SpaceTag(space) ==
    CASE space = "PlayerOne" -> 0
      [] space = "PlayerTwo" -> 1
      [] space = "Empty" -> 2

SerializeSpace(space) == <<SpaceTag(space)>>

DeserializeSpace(data) ==
    [value |-> IF \E space \in Space : SpaceTag(space) = Head(data)
               THEN CHOOSE space \in Space : SpaceTag(space) = Head(data)
               ELSE "InvalidData",
     rest |-> Tail(data)]

\* [[S; 3]; 3] is written row by row.
CellAt(k) == <<(k - 1) \div 3, (k - 1) % 3>>

GridOf(cells) == [c \in Coord |-> cells[3 * c[1] + c[2] + 1]]

RECURSIVE DeserializeSpaces(_, _)
DeserializeSpaces(data, n) ==
    IF n = 0
    THEN [value |-> <<>>, rest |-> data]
    ELSE LET first == DeserializeSpace(data)
             more == DeserializeSpaces(first.rest, n - 1)
         IN  [value |-> <<first.value>> \o more.value, rest |-> more.rest]

\* Board<Space>
SerializeSubBoard(b) ==
    IF b.tag = "Unsolved"
    THEN <<0>> \o Concat([k \in 1 .. 9 |-> SerializeSpace(b.grid[CellAt(k)])])
    ELSE <<1>> \o SerializePlayer(b.player)

DeserializeSubBoard(data) ==
    IF Head(data) = 0
    THEN LET cells == DeserializeSpaces(Tail(data), 9)
         IN  [value |-> Unsolved(GridOf(cells.value)), rest |-> cells.rest]
    ELSE LET player == DeserializePlayer(Tail(data))
         IN  [value |-> Solved(player.value), rest |-> player.rest]

RECURSIVE DeserializeSubBoards(_, _)
DeserializeSubBoards(data, n) ==
    IF n = 0
    THEN [value |-> <<>>, rest |-> data]
    ELSE LET first == DeserializeSubBoard(data)
             more == DeserializeSubBoards(first.rest, n - 1)
         IN  [value |-> <<first.value>> \o more.value, rest |-> more.rest]

\* Board<Board<Space>>
SerializeBoard(b) ==
    IF b.tag = "Unsolved"
    THEN <<0>> \o Concat([k \in 1 .. 9 |-> SerializeSubBoard(b.grid[CellAt(k)])])
    ELSE <<1>> \o SerializePlayer(b.player)

DeserializeBoard(data) ==
    IF Head(data) = 0
    THEN LET cells == DeserializeSubBoards(Tail(data), 9)
         IN  [value |-> Unsolved(GridOf(cells.value)), rest |-> cells.rest]
    ELSE LET player == DeserializePlayer(Tail(data))
         IN  [value |-> Solved(player.value), rest |-> player.rest]

SerializeGame(g) ==
    SerializeU8(g.version)
        \o SerializePubkey(g.player1)
        \o SerializePubkey(g.player2)
        \o SerializePlayer(g.creator)
        \o SerializePlayer(g.next_play)
        \o SerializeU8(g.signer_bump)
        \o SerializeU64(g.wager)
        \o SerializeI64(g.turn_length)
        \o SerializeI64(g.last_turn)
        \o SerializeU8(g.last_move[1]) \o SerializeU8(g.last_move[2])
        \o SerializeBoard(g.board)

DeserializeGame(data) ==
    LET version == DeserializeU8(data)
        player1 == DeserializePubkey(version.rest)
        player2 == DeserializePubkey(player1.rest)
        creator == DeserializePlayer(player2.rest)
        next_play == DeserializePlayer(creator.rest)
        signer_bump == DeserializeU8(next_play.rest)
        wager == DeserializeU64(signer_bump.rest)
        turn_length == DeserializeI64(wager.rest)
        last_turn == DeserializeI64(turn_length.rest)
        row == DeserializeU8(last_turn.rest)
        col == DeserializeU8(row.rest)
        board == DeserializeBoard(col.rest)
    IN  [value |-> [version |-> version.value,
                    player1 |-> player1.value,
                    player2 |-> player2.value,
                    creator |-> creator.value,
                    next_play |-> next_play.value,
                    signer_bump |-> signer_bump.value,
                    wager |-> wager.value,
                    turn_length |-> turn_length.value,
                    last_turn |-> last_turn.value,
                    last_move |-> <<row.value, col.value>>,
                    board |-> board.value],
         rest |-> board.rest]

\* The boards of both scripted games after every move (all sub-boards
\* Unsolved, some Solved, the main board Solved), and a main board won by
\* either player.
GameBoards ==
    {Replay(OneWins, n) : n \in 0 .. Len(OneWins)}
        \cup {Replay(TwoWins, n) : n \in 0 .. Len(TwoWins)}
        \cup {Solved(player) : player \in Player}

GameRecords ==
    {[version |-> 0, player1 |-> player1, player2 |-> player2, creator |-> creator,
      next_play |-> next_play, signer_bump |-> SignerBump, wager |-> wager,
      turn_length |-> turn_length, last_turn |-> last_turn, last_move |-> last_move,
      board |-> board] :
        player1 \in {ZeroKey, "profile1"}, player2 \in {ZeroKey, "profile2", "profile3"},
        creator \in Player, next_play \in Player, wager \in {0, U64Max},
        turn_length \in {-1, 0, TurnLength}, last_turn \in {0, MaxTime},
        last_move \in {NoLastMove, Index(2)},
        board \in GameBoards}

CodecInit ==
    /\ now = 1
    /\ profiles = [p \in Profiles |-> NoProfile]
    /\ game_account = "open"
    /\ game \in GameRecords
    /\ lamports = [a \in LamportAccounts \cup Profiles |->
                     IF a \in Funders THEN InitFunds ELSE 0]
    /\ releases = 0
    /\ moves_made = 0
    /\ engine = NoCall
    /\ SetupNew

\* game.serialize(&mut data)
SerializeCall ==
    /\ engine.call.op = "none"
    /\ engine' = [engine EXCEPT !.call = [op |-> "serialize", data |-> SerializeGame(game)]]
    /\ UNCHANGED <<accounts, harness>>

\* Game::deserialize(&mut data)
DeserializeCall ==
    /\ engine.call.op = "serialize"
    /\ engine' = [engine EXCEPT !.call =
                     [op |-> "deserialize", result |-> DeserializeGame(engine.call.data)]]
    /\ UNCHANGED <<accounts, harness>>

CodecNext == SerializeCall \/ DeserializeCall

CodecSpec == CodecInit /\ [][CodecNext]_vars

(***************************************************************************)
(* C29. Serialization round-trips: for every Game record g (players set    *)
(* or zero, either creator and next_play, any wager, turn_length and       *)
(* last_turn, any last_move, boards with Solved and Unsolved sub-boards),  *)
(* deserialize(serialize(g)) = g, and the whole data is consumed.          *)
(***************************************************************************)
RoundTrip ==
    engine.call.op = "deserialize" =>
        /\ engine.call.result.value = game
        /\ engine.call.result.rest = <<>>

\* A record with a negative turn length, player Two to move and a board
\* holding Solved and Unsolved sub-boards has been written and read back.
RoundTripWitness ==
    /\ engine.call.op = "deserialize"
    /\ game.next_play = "Two"
    /\ game.turn_length < 0
    /\ game.wager = U64Max
    /\ game.board.tag = "Unsolved"
    /\ \E i, j \in Coord :
           /\ game.board.grid[i].tag = "Solved"
           /\ game.board.grid[i].player = "Two"
           /\ game.board.grid[j].tag = "Unsolved"
           /\ \E c \in Coord : game.board.grid[j].grid[c] = "PlayerOne"

(***************************************************************************)
(* C30. In every reachable Active state (game started, main board          *)
(* Unsolved) the player to move has at least one (big_board, small_board)  *)
(* pair that is_valid_move accepts, so that a game can always progress by  *)
(* a move.                                                                 *)
(***************************************************************************)
SomeValidMove == \E mov \in AllMoves : is_valid_move(game, mov)

CanAlwaysMove == Active => SomeValidMove

(***************************************************************************)
(* C30, as the code has it.  In a reachable Active state the player to     *)
(* move has a move is_valid_move accepts exactly when the sub-board the    *)
(* last move points to is not an Unsolved sub-board without an empty cell  *)
(* (and some Unsolved sub-board has an empty cell at all).  A sub-board    *)
(* filled without a line stays Unsolved and stays the forced target: once  *)
(* a move points to it no move is accepted, and only a forfeit ends the    *)
(* game.                                                                   *)
(***************************************************************************)
Full(board) == board.tag = "Unsolved" /\ \A c \in Coord : board.grid[c] # "Empty"

ForcedFull == game.last_move \in Coord /\ Full(game.board.grid[game.last_move])

NoEmptyCell ==
    \A i \in Coord : game.board.grid[i].tag = "Solved" \/ Full(game.board.grid[i])

CanMoveUnlessFull ==
    /\ Active => (SomeValidMove <=> ~(ForcedFull \/ NoEmptyCell))
    /\ Active /\ ForcedFull => \A mov \in AllMoves : ~Accepted(mov)

\* The game is Active, the last move points to a sub-board all of whose
\* cells are taken without a line, and the player to move has no move.
CanMoveUnlessFullWitness ==
    /\ Active
    /\ ForcedFull
    /\ ~NoEmptyCell
    /\ ~SomeValidMove

(***************************************************************************)
(* C31. A sub-board whose 9 cells are all occupied without a complete line *)
(* stays Unsolved in every later state: no step marks it Solved or changes *)
(* a cell of it, and no move into it is accepted again.                    *)
(***************************************************************************)
FullSubBoards ==
    IF game_open /\ game.board.tag = "Unsolved"
    THEN {i \in Coord : Full(game.board.grid[i])}
    ELSE {}

FullStaysUnsolved ==
    /\ [](\A i \in FullSubBoards : \A mov \in AllMoves :
              mov.big_board = i => ~is_valid_move(game, mov) /\ ~Accepted(mov))
    /\ [][\A i \in FullSubBoards :
              game_open' /\ game'.board.tag = "Unsolved" =>
                  game'.board.grid[i] = game.board.grid[i]]_vars

\* Sub-board (0, 0) was filled without a line and a further move has been
\* made since.
FullStaysUnsolvedWitness ==
    /\ <<0, 0>> \in FullSubBoards
    /\ game.last_move = <<0, 0>>
    /\ \E i \in Coord \ {<<0, 0>>} : game.board.grid[i].grid[<<0, 0>>] = "PlayerOne"
    /\ moves_made = Len(Stalemate)

(***************************************************************************)
(* C32. A single successful move changes at most one cell of a grid and    *)
(* creates at most one new winning line (row, column or diagonal) for the  *)
(* mover on that grid.                                                     *)
(***************************************************************************)
\* The sub-board a move that did not win the game was played in, its grid
\* with the move's mark, and the lines the mark completed for the mover.
Played == CHOOSE b \in Coord : game'.board.grid[b] # game.board.grid[b]

Marked ==
    [game.board.grid[Played].grid EXCEPT ![game'.last_move] = SpaceFrom(game.next_play)]

NewLines ==
    {line \in Lines :
        /\ \A c \in line : Marked[c] = SpaceFrom(game.next_play)
        /\ \E c \in line : game.board.grid[Played].grid[c] # SpaceFrom(game.next_play)}

OneCellChanged ==
    /\ game.board.grid[Played].grid[game'.last_move] = "Empty"
    /\ \A b \in Coord \ {Played} : game'.board.grid[b] = game.board.grid[b]
    /\ game'.board.grid[Played] \in {Unsolved(Marked), Solved(game.next_play)}

OneLinePerMove ==
    [][MoveStep /\ ~WinStep => OneCellChanged /\ Cardinality(NewLines) <= 1]_vars

(***************************************************************************)
(* C32, as the code has it.  A successful move that does not end the game  *)
(* marks exactly one Empty cell of one sub-board and changes no other      *)
(* sub-board; every line it completes for the mover runs through that      *)
(* cell, it may complete more than one at once, and the sub-board becomes  *)
(* Solved(mover) exactly when it completes at least one.                   *)
(***************************************************************************)
OneCellPerMove ==
    [][MoveStep /\ ~WinStep =>
          /\ OneCellChanged
          /\ \A line \in NewLines : game'.last_move \in line
          /\ game'.board.grid[Played] =
                 IF NewLines # {} THEN Solved(game.next_play) ELSE Unsolved(Marked)]_vars

\* Player One has just taken the corner of sub-board (0, 0) that completed
\* row 0 and column 0 together.
OneCellPerMoveWitness ==
    /\ game_open
    /\ moves_made = Len(DoubleLine)
    /\ game.last_move = <<0, 0>>
    /\ game.board.tag = "Unsolved"
    /\ game.board.grid[<<0, 0>>] = Solved("One")
    /\ \A i \in {<<0, 1>>, <<0, 2>>, <<1, 0>>, <<2, 0>>} :
           game.board.grid[i].grid[<<0, 0>>] = "PlayerTwo"

(***************************************************************************)
(* C33. In every reachable state no Unsolved board contains a completed    *)
(* line: for each Unsolved sub-board and for an Unsolved top-level board   *)
(* is_winner is false for both players (no row, column or diagonal is one  *)
(* player's), since a board that gains a line for the mover is marked      *)
(* Solved(mover) within the same move.                                     *)
(***************************************************************************)
HasLine(winners, player) ==
    \/ is_winner(winners, player)
    \/ \E line \in Lines : \A c \in line : winners[c] = Some(player)

NoLineUnsolved ==
    game_open /\ game.board.tag = "Unsolved" =>
        \A player \in Player :
            /\ ~HasLine([i \in Coord |-> BoardWinner(game.board.grid[i])], player)
            /\ \A b \in Coord :
                   game.board.grid[b].tag = "Unsolved" =>
                       ~HasLine([i \in Coord |-> SpaceWinner(game.board.grid[b].grid[i])],
                                player)

\* Two sub-boards are Solved(One) and an Unsolved one holds two of Player
\* One's marks: lines were completed and the boards marked in those moves.
NoLineUnsolvedWitness ==
    /\ game_open
    /\ game.board.tag = "Unsolved"
    /\ Cardinality({b \in Coord : game.board.grid[b] = Solved("One")}) = 2
    /\ \E b \in Coord :
           /\ game.board.grid[b].tag = "Unsolved"
           /\ Cardinality({i \in Coord : game.board.grid[b].grid[i] = "PlayerOne"}) = 2

(***************************************************************************)
(* C34. In every reachable state last_move is either the sentinel [3, 3]   *)
(* or a coordinate with both components in 0 .. 2, and it is the sentinel  *)
(* exactly until the first successful move of the game.                    *)
(***************************************************************************)
LastMoveInRange ==
    game_open =>
        /\ game.last_move \in Coord \cup {NoLastMove}
        /\ game.last_move = NoLastMove <=> moves_made = 0

\* After the first move of a game last_move is that move's cell.
LastMoveInRangeWitness ==
    /\ game_open
    /\ moves_made = 1
    /\ game.last_move \in Coord
    /\ \E b \in Coord : game.board.grid[b].grid[game.last_move] = "PlayerOne"

(***************************************************************************)
(* C35. Turns strictly alternate: Player One makes the first move of every *)
(* game, whichever player created it, and no player makes two successful   *)
(* moves in a row: the n-th move of a game is Player One's when n is odd   *)
(* and Player Two's when n is even.                                        *)
(***************************************************************************)
TurnsAlternate ==
    /\ [](game_open /\ moves_made = 0 => game.next_play = "One")
    /\ [][MoveStep =>
              /\ game.next_play = Mover(moves_made + 1)
              /\ \E authority \in Authorities :
                     IsAuthority(authority, PlayerKey(game, Mover(moves_made + 1)))
              /\ ~WinStep => game'.next_play = OtherPlayer(game.next_play)]_vars

\* Player Two created the game, and after two moves it is Player One's turn.
TurnsAlternateWitness ==
    /\ game_open
    /\ game.creator = "Two"
    /\ moves_made = 2
    /\ game.next_play = "One"
    /\ game.player1 # game.player2

(***************************************************************************)
(* C36. A winning MakeMove leaves the elo of the winner's and of the       *)
(* loser's profile unchanged; the elo of a profile changes only in a       *)
(* successful ForfeitGame.                                                 *)
(***************************************************************************)
EloOnlyOnForfeit ==
    [][/\ WinStep => \A p \in Profiles : profiles'[p].elo = profiles[p].elo
       /\ (\E p \in Profiles : profiles'[p].elo # profiles[p].elo) => ForfeitStep]_vars

\* A game was won on the board between two differently rated profiles: the
\* winner's and the loser's counters moved and both ratings are as before.
EloOnlyOnForfeitWitness ==
    /\ Won
    /\ releases = 1
    /\ profiles["profile1"].elo = INITIAL_ELO + 25
    /\ profiles["profile2"].elo = INITIAL_ELO - 25
    /\ profiles["profile1"].wins = 2
    /\ profiles["profile2"].losses = 2

(***************************************************************************)
(* C37. The winner of a game decided on the board is the player who made   *)
(* the last move: whenever the top-level board is Solved(P), P is the      *)
(* player whose MakeMove solved it, and next_play still equals P, since    *)
(* the winning move does not pass the turn.                                *)
(***************************************************************************)
WinnerMovedLast ==
    /\ [](Won => /\ game.board = Solved(game.next_play)
                 /\ game.next_play = Mover(moves_made))
    /\ [][WinStep => /\ game.board.tag = "Unsolved"
                     /\ game'.board = Solved(game.next_play)
                     /\ game'.next_play = game.next_play]_vars

\* Player Two won with the eighteenth move and is still the player to move.
WinnerMovedLastWitness ==
    /\ Won
    /\ game.board = Solved("Two")
    /\ game.next_play = "Two"
    /\ moves_made = Len(TwoWins)

(***************************************************************************)
(* C38. Test harness: a setup() call that finds the validator being killed *)
(* (its count is -1) waits, and once the kill has completed goes on and    *)
(* returns a TestGuard (or fails with the validator that could not be      *)
(* started); it never waits forever.                                       *)
(***************************************************************************)
SeesKill(t) == tasks[t].pc \in {"setup", "sleeping"} /\ tasks[t].count = -1

KilledSetupReturns ==
    \A t \in Tasks : SeesKill(t) ~> tasks[t].pc \in {"live", "panicked"}

(***************************************************************************)
(* C39. Test harness: under any interleaving of setup() calls and          *)
(* TestGuard drops, only the setup() call that moved test_count from 0 to  *)
(* 1 starts a validator, so that at most one validator process exists at   *)
(* any time.                                                               *)
(***************************************************************************)
Starters == {t \in Tasks : tasks[t].pc \in {"starting", "started"}}

OneValidator ==
    /\ [](/\ processes <= 1
          /\ Cardinality(Starters) <= 1
          /\ \A t \in Starters : tasks[t].count = 0 /\ test_count >= 1)
    /\ [][processes' > processes =>
              /\ processes = 0
              /\ \E t \in Starters : tasks'[t].pc = "started"]_vars

\* A first validator was killed with the drop of its last guard, and a
\* later test runs on a second one.
OneValidatorWitness ==
    /\ processes = 1
    /\ validator = "Some"
    /\ \E t, u \in Tasks :
           /\ tasks[t].pc = "done"
           /\ tasks[u].pc = "live"

(***************************************************************************)
(* C40. Test harness: under any interleaving the validator is killed only  *)
(* by the drop of the last live TestGuard (test_count 1 -> -1), never      *)
(* while another test is counted or holds a TestGuard, and after the kill  *)
(* test_count returns to 0.                                                *)
(***************************************************************************)
Counted == {t \in Tasks : tasks[t].pc \in {"starting", "started", "waiting", "live", "dropping", "killing", "killed"}}

LastGuardKills ==
    /\ [](\A t \in Tasks :
              tasks[t].pc \in {"killing", "killed"} =>
                  /\ test_count = -1
                  /\ tasks[t].count = 1
                  /\ Counted = {t})
    /\ [][/\ processes' < processes =>
                 \E t \in Tasks : tasks[t].pc = "killing" /\ Counted = {t}
          /\ \A t \in Tasks :
                 tasks[t].pc = "killed" /\ tasks'[t].pc # "killed" =>
                     test_count' = 0 /\ tasks'[t].pc = "done"]_vars

\* Two tests have used the validator; the second drop killed it and the
\* counter is back to 0.
LastGuardKillsWitness ==
    /\ test_count = 0
    /\ processes = 0
    /\ validator = "None"
    /\ Cardinality({t \in Tasks : tasks[t].pc = "done"}) = 2
    /\ \E t \in Tasks : tasks[t].pc = "new"

====
